---- MODULE Spec2Model ----
(***************************************************************************)
(* Answer-evaluation pipeline of the AI Interview Assistant backend        *)
(* (backend/app/services/ml_engine.py with the constants of                *)
(* backend/app/config.py).                                                 *)
(*                                                                         *)
(* Texts are TLA+ strings; the text functions work on them character by    *)
(* character, as the Python string methods and regular expressions do.     *)
(* Numbers are fixed point: a score is kept in tenths (100.0 is 1000),     *)
(* a weighted sum of scores in thousandths, a similarity as an exact       *)
(* fraction.  round() is Python's round-half-to-even on the exact decimal   *)
(* value: the binary floating-point error of the Python sums, which can    *)
(* move a value lying exactly on a tie (x.x5) to either neighbour, is not  *)
(* modelled, so a rounded score can differ from the program's by 0.1 at    *)
(* such a tie.                                                             *)
(*                                                                         *)
(* A definition whose name is that of another with a suffix (for example   *)
(* FinalScore_no_cap before FinalScore) is a faulty variant of it, kept    *)
(* next to the definition it deviates from; the properties below are       *)
(* expected to fail when the variant takes its place.                      *)
(***************************************************************************)
EXTENDS Integers, Sequences, FiniteSets, TLC

(***************************************************************************)
(* Python string primitives                                                *)
(***************************************************************************)
\* None, where a number is expected
None == -1

CharAt(s, i) == SubSeq(s, i, i)

LowerLetters == <<"a","b","c","d","e","f","g","h","i","j","k","l","m",
                  "n","o","p","q","r","s","t","u","v","w","x","y","z">>
UpperLetters == <<"A","B","C","D","E","F","G","H","I","J","K","L","M",
                  "N","O","P","Q","R","S","T","U","V","W","X","Y","Z">>
Digits == {"0","1","2","3","4","5","6","7","8","9"}

LowerSet == {LowerLetters[k] : k \in 1..26}
UpperSet == {UpperLetters[k] : k \in 1..26}
\* \w of the re module
WordChars == LowerSet \cup UpperSet \cup Digits \cup {"_"}

IsLower(c) == c \in LowerSet
IsUpper(c) == c \in UpperSet
IsAlpha(c) == IsLower(c) \/ IsUpper(c)
IsWordChar(c) == c \in WordChars
\* \s of the re module, and the separator of str.split()
IsSpace(c) == c = " "

LowerChar(c) == IF IsUpper(c)
                THEN LowerLetters[CHOOSE k \in 1..26 : UpperLetters[k] = c]
                ELSE c

RECURSIVE Lower(_)
\* str.lower(): every upper-case letter replaced, the rest kept
Lower(s) ==
    LET ups == {i \in 1..Len(s) : IsUpper(CharAt(s, i))}
    IN  IF ups = {} THEN s
        ELSE LET i == CHOOSE j \in ups : \A k \in ups : j <= k
             IN  SubSeq(s, 1, i - 1) \o LowerChar(CharAt(s, i))
                 \o Lower(SubSeq(s, i + 1, Len(s)))

SetMax(S) == CHOOSE m \in S : \A x \in S : x <= m
SetMin(S) == CHOOSE m \in S : \A x \in S : m <= x

RECURSIVE Sorted(_)
\* the elements of a set of numbers in increasing order
Sorted(S) == IF S = {} THEN <<>> ELSE <<SetMin(S)>> \o Sorted(S \ {SetMin(S)})

\* the pieces of s between the positions in at, empty pieces included:
\* the pieces re.split returns when at holds the separator characters
Pieces(s, at) ==
    LET cuts == Sorted(at)
    IN  [k \in 1..(Len(cuts) + 1) |->
            SubSeq(s, IF k = 1 THEN 1 ELSE cuts[k - 1] + 1,
                      IF k = Len(cuts) + 1 THEN Len(s) ELSE cuts[k] - 1)]

\* str.strip()
Strip(s) == LET ink == {i \in 1..Len(s) : ~IsSpace(CharAt(s, i))}
            IN  IF ink = {} THEN "" ELSE SubSeq(s, SetMin(ink), SetMax(ink))

\* str.split(): the maximal runs of non-blank characters
Split(s) ==
    SelectSeq(Pieces(s, {i \in 1..Len(s) : IsSpace(CharAt(s, i))}), LAMBDA w : w # "")

\* s[i:i+len(x)] == x
MatchAt(s, i, x) == i + Len(x) - 1 <= Len(s) /\ SubSeq(s, i, i + Len(x) - 1) = x

\* x in s
Contains(s, x) == \E i \in 1..(Len(s) - Len(x) + 1) : MatchAt(s, i, x)

\* \b of the re module at the gap before position i
WordBoundary(s, i) ==
    LET before == i > 1 /\ IsWordChar(CharAt(s, i - 1))
        after  == i <= Len(s) /\ IsWordChar(CharAt(s, i))
    IN  before # after

\* \b x \b matches at position i
WordMatchAt(s, i, x) ==
    MatchAt(s, i, x) /\ WordBoundary(s, i) /\ WordBoundary(s, i + Len(x))

RECURSIVE CountWordFrom(_, _, _)
\* the matches of \b x \b that re.findall collects scanning from position i
CountWordFrom(s, i, x) ==
    LET at == {j \in i..Len(s) : WordMatchAt(s, j, x)}
    IN  IF at = {} THEN 0 ELSE 1 + CountWordFrom(s, SetMin(at) + Len(x), x)
\* len(re.findall(r'\b' + re.escape(x) + r'\b', s))
CountWord(s, x) == CountWordFrom(s, 1, x)

RECURSIVE SeqSum(_)
SeqSum(q) == IF q = <<>> THEN 0 ELSE Head(q) + SeqSum(Tail(q))

SeqToSet(q) == {q[i] : i \in 1..Len(q)}

Min(a, b) == IF a < b THEN a ELSE b
Max(a, b) == IF a > b THEN a ELSE b

\* round(n / d) for d > 0, ties to the even neighbour
RoundDiv(n, d) ==
    LET q == n \div d
        r == n % d
    IN  IF 2 * r < d THEN q
        ELSE IF 2 * r > d THEN q + 1
        ELSE IF q % 2 = 0 THEN q ELSE q + 1

\* int(n / d): truncation toward zero
TruncDiv(n, d) == IF n >= 0 THEN n \div d ELSE -((-n) \div d)

(***************************************************************************)
(* Configuration (config.py).  Scores and weights are scaled: a score in   *)
(* tenths, a weight in hundredths.                                         *)
(***************************************************************************)
SCORE_WEIGHTS_five_scores == [content |-> 40, delivery |-> 15, communication |-> 15,
                              voice |-> 15, confidence |-> 15, structure |-> 10]
SCORE_WEIGHTS == [content |-> 30, delivery |-> 15, communication |-> 15,
                  voice |-> 15, confidence |-> 15, structure |-> 10]
MIN_SCORE == 0
MAX_SCORE == 100
OPTIMAL_WPM_MIN == 130
OPTIMAL_WPM_MAX == 160
WPM_TOO_SLOW == 100
WPM_TOO_FAST == 180
FILLER_WORDS == <<"um", "uh", "umm", "uhh", "er", "err",
                  "like", "you know", "basically", "actually",
                  "literally", "honestly", "right", "okay",
                  "so", "well", "I mean", "kind of", "sort of",
                  "you see", "I guess", "anyway">>
FILLER_PENALTY_PER_WORD == 2
MAX_FILLER_PENALTY == 30
CONFIDENCE_WEIGHTS == [voice_confidence |-> 40, eye_contact |-> 30,
                       body_stability |-> 20, emotion_positivity |-> 10]
STRUCTURE_WEIGHTS == [star_method |-> 50, organization |-> 30, conclusion |-> 20]
STAR_SITUATION_KEYWORDS == <<"situation", "context", "background", "when", "there was",
                             "faced with", "challenge was", "problem was", "at the time",
                             "in my role">>
STAR_TASK_KEYWORDS == <<"task", "responsible for", "my role", "needed to", "had to",
                        "goal was", "objective was", "assigned to", "in charge of">>
STAR_ACTION_KEYWORDS == <<"action", "i did", "i took", "implemented", "developed", "created",
                          "initiated", "led", "organized", "coordinated", "decided to">>
STAR_RESULT_KEYWORDS == <<"result", "outcome", "achieved", "increased", "decreased",
                          "improved", "saved", "reduced", "generated", "led to",
                          "resulted in", "percent">>
\* thresholds: word counts, or ratios in hundredths
QUALITY_GATES == [min_word_count   |-> [threshold |-> 15, penalty |-> 50],
                  min_unique_words |-> [threshold |-> 10, penalty |-> 30],
                  max_filler_ratio |-> [threshold |-> 15, penalty |-> 25],
                  min_relevance    |-> [threshold |-> 25, penalty |-> 40],
                  max_repetition   |-> [threshold |-> 30, penalty |-> 20]]
\* the alternatives of the first pattern of NONSENSE_PATTERNS
NONSENSE_WORDS == <<"asdf", "qwerty", "lorem", "ipsum", "blah", "test", "testing",
                    "hello", "hi", "hey">>
MIN_COHERENCE_SCORE == 30
SCORE_CAPS == [very_short |-> 40, short |-> 60, no_structure |-> 55,
               off_topic |-> 35, nonsense |-> 15]

(***************************************************************************)
(* Shared text measures                                                    *)
(***************************************************************************)
\* [s.strip() for s in re.split(r'[.!?]+', transcript) if s.strip()]
IsSentenceEnd(c) == c \in {".", "!", "?"}
Sentences(s) ==
    LET parts == Pieces(s, {i \in 1..Len(s) : IsSentenceEnd(CharAt(s, i))})
        stripped == [k \in 1..Len(parts) |-> Strip(parts[k])]
    IN  SelectSeq(stripped, LAMBDA p : p # "")

\* the number of entries of q equal to w
CountOf(q, w) == Cardinality({i \in 1..Len(q) : q[i] = w})
\* max(word_counts.values()) for the words of q (0 for no words)
MaxCount(q) == IF q = <<>> THEN 0 ELSE SetMax({CountOf(q, q[i]) : i \in 1..Len(q)})
\* [w for w in q if len(w) > n]
LongerThan(q, n) == SelectSeq(q, LAMBDA w : Len(w) > n)

(***************************************************************************)
(* Delivery                                                                *)
(***************************************************************************)
\* count_fillers: the total over FILLER_WORDS of the \b-delimited matches in
\* the lower-cased transcript
count_fillers(transcript) ==
    IF transcript = "" THEN 0
    ELSE LET t == Lower(transcript)
         IN  SeqSum([k \in 1..Len(FILLER_WORDS) |-> CountWord(t, FILLER_WORDS[k])])

\* compute_wpm, in tenths; duration_seconds is given in tenths of a second
compute_wpm(transcript, duration_seconds) ==
    IF transcript = "" \/ duration_seconds <= 0 THEN 0
    ELSE RoundDiv(Len(Split(transcript)) * 6000, duration_seconds)

\* get_wpm_assessment: the penalty (whole points) for a WPM given in tenths
get_wpm_assessment_open_range(wpm) ==
    IF wpm < WPM_TOO_SLOW * 10
    THEN Min(30, TruncDiv((WPM_TOO_SLOW * 10 - wpm) * 5, 100))
    ELSE IF wpm > WPM_TOO_FAST * 10
    THEN Min(30, TruncDiv((wpm - WPM_TOO_FAST * 10) * 3, 100))
    ELSE IF OPTIMAL_WPM_MIN * 10 < wpm /\ wpm < OPTIMAL_WPM_MAX * 10 THEN 0
    ELSE 5
get_wpm_assessment(wpm) ==
    IF wpm < WPM_TOO_SLOW * 10
    THEN Min(30, TruncDiv((WPM_TOO_SLOW * 10 - wpm) * 5, 100))
    ELSE IF wpm > WPM_TOO_FAST * 10
    THEN Min(30, TruncDiv((wpm - WPM_TOO_FAST * 10) * 3, 100))
    ELSE IF OPTIMAL_WPM_MIN * 10 <= wpm /\ wpm <= OPTIMAL_WPM_MAX * 10 THEN 0
    ELSE 5

\* _clamp_score for a value in thousandths; the result is in tenths
_clamp_score_unclamped(milli) == RoundDiv(milli, 100)
_clamp_score(milli) ==
    RoundDiv(Max(MIN_SCORE * 1000, Min(MAX_SCORE * 1000, milli)), 100)

\* the delivery section of score_answer: 100 less the pace and filler penalties
DeliveryScore_no_pace(wpm, filler_count) ==
    LET filler_penalty == Min(MAX_FILLER_PENALTY, filler_count * FILLER_PENALTY_PER_WORD)
    IN  _clamp_score((100 - filler_penalty) * 1000)
DeliveryScore(wpm, filler_count) ==
    LET wpm_penalty    == get_wpm_assessment(wpm)
        filler_penalty == Min(MAX_FILLER_PENALTY, filler_count * FILLER_PENALTY_PER_WORD)
    IN  _clamp_score((100 - wpm_penalty - filler_penalty) * 1000)

(***************************************************************************)
(* Structure (STAR method)                                                 *)
(***************************************************************************)
\* any(keyword in text for keyword in keywords)
ContainsAny(text, keywords) == \E k \in 1..Len(keywords) : Contains(text, keywords[k])

conclusion_indicators == <<"in conclusion", "ultimately", "as a result", "this led to",
                           "the outcome was", "i learned", "this taught me",
                           "because of this", "this experience", "going forward",
                           "the key takeaway">>
last_sentence_indicators == <<"result", "learn", "outcome", "achiev", "succe">>

\* analyze_star_structure: the scores in whole points, final_score in tenths
analyze_star_structure(transcript) ==
    IF transcript = "" \/ Len(transcript) < 20
    THEN [star_components_found |-> {}, star_score |-> 0, organization_score |-> 0,
          conclusion_score |-> 0, final_score |-> 0]
    ELSE
    LET transcript_lower == Lower(transcript)
        found == {c \in {"situation", "task", "action", "result"} :
                    ContainsAny(transcript_lower,
                                CASE c = "situation" -> STAR_SITUATION_KEYWORDS
                                  [] c = "task"      -> STAR_TASK_KEYWORDS
                                  [] c = "action"    -> STAR_ACTION_KEYWORDS
                                  [] c = "result"    -> STAR_RESULT_KEYWORDS)}
        components_count == Cardinality(found)
        star_score == CASE components_count = 4 -> 100
                        [] components_count = 3 -> 80
                        [] components_count = 2 -> 60
                        [] components_count = 1 -> 40
                        [] OTHER                -> 25
        sentences == Sentences(transcript)
        organization_score ==
            IF Len(sentences) >= 3 THEN Min(100, 60 + Len(sentences) * 5)
            ELSE IF Len(sentences) >= 2 THEN 50
            ELSE 30
        has_conclusion ==
            \/ ContainsAny(transcript_lower, conclusion_indicators)
            \/ /\ sentences # <<>>
               /\ ContainsAny(Lower(sentences[Len(sentences)]), last_sentence_indicators)
        conclusion_score == IF has_conclusion THEN 90 ELSE 60
    IN  [star_components_found |-> found,
         star_score |-> star_score,
         organization_score |-> organization_score,
         conclusion_score |-> conclusion_score,
         final_score |-> RoundDiv(STRUCTURE_WEIGHTS.star_method * star_score
                                  + STRUCTURE_WEIGHTS.organization * organization_score
                                  + STRUCTURE_WEIGHTS.conclusion * conclusion_score, 10)]

\* calculate_structure_score
calculate_structure_score(transcript) == analyze_star_structure(transcript)

(***************************************************************************)
(* Confidence                                                              *)
(***************************************************************************)
\* calculate_confidence_score: the inputs in tenths, final_score in tenths
calculate_confidence_score(voice_confidence, eye_contact_score, body_stability_score, emotion_positivity_score) ==
    LET final == CONFIDENCE_WEIGHTS.voice_confidence * voice_confidence
               + CONFIDENCE_WEIGHTS.eye_contact * eye_contact_score
               + CONFIDENCE_WEIGHTS.body_stability * body_stability_score
               + CONFIDENCE_WEIGHTS.emotion_positivity * emotion_positivity_score
    IN  RoundDiv(Min(100 * 1000, Max(0, final)), 100)

(***************************************************************************)
(* Quality gates                                                           *)
(***************************************************************************)
\* the alternative of the first nonsense pattern that matches at position i
\* (0 for none): \b(asdf|qwerty|...|hey)\b
NonsenseWordAt(s, i) ==
    LET ks == {k \in 1..Len(NONSENSE_WORDS) : WordMatchAt(s, i, NONSENSE_WORDS[k])}
    IN  IF ks = {} THEN 0 ELSE SetMin(ks)
RECURSIVE CountNonsenseWordsFrom(_, _)
CountNonsenseWordsFrom(s, i) ==
    LET at == {j \in i..Len(s) : WordBoundary(s, j) /\ NonsenseWordAt(s, j) # 0}
    IN  IF at = {} THEN 0
        ELSE 1 + CountNonsenseWordsFrom(s, SetMin(at)
                                           + Len(NONSENSE_WORDS[NonsenseWordAt(s, SetMin(at))]))
\* len(re.findall(r'\b(asdf|qwerty|...|hey)\b', s))
CountNonsenseWords(s) == CountNonsenseWordsFrom(s, 1)

\* len(re.findall(r'(.)\1{4,}', s)): the greedy match takes a whole run of
\* one character, so the matches are the maximal runs of 5 or more
CountCharRuns(s) ==
    Cardinality({i \in 1..Len(s) :
                   /\ i = 1 \/ CharAt(s, i - 1) # CharAt(s, i)
                   /\ i + 4 <= Len(s)
                   /\ \A k \in 1..4 : CharAt(s, i + k) = CharAt(s, i)})

\* the length of a match of \w{1,2}\s at position i, 0 for none
ShortWordUnit(s, i) ==
    IF i + 2 <= Len(s) /\ IsWordChar(CharAt(s, i)) /\ IsWordChar(CharAt(s, i + 1))
       /\ IsSpace(CharAt(s, i + 2)) THEN 3
    ELSE IF i + 1 <= Len(s) /\ IsWordChar(CharAt(s, i)) /\ IsSpace(CharAt(s, i + 1)) THEN 2
    ELSE 0
RECURSIVE ShortWordRun(_, _)
\* <<units, characters>> of the longest run of \w{1,2}\s units from position i
ShortWordRun(s, i) ==
    LET u == ShortWordUnit(s, i)
    IN  IF u = 0 THEN <<0, 0>>
        ELSE LET rest == ShortWordRun(s, i + u) IN <<1 + rest[1], u + rest[2]>>
RECURSIVE CountShortWordRunsFrom(_, _)
CountShortWordRunsFrom(s, i) ==
    LET at == {j \in i..Len(s) : WordBoundary(s, j) /\ ShortWordUnit(s, j) # 0
                                 /\ ShortWordRun(s, j)[1] >= 5}
    IN  IF at = {} THEN 0
        ELSE 1 + CountShortWordRunsFrom(s, SetMin(at) + ShortWordRun(s, SetMin(at))[2])
\* len(re.findall(r'\b(\w{1,2}\s){5,}', s))
CountShortWordRuns(s) == CountShortWordRunsFrom(s, 1)

common_words ==
    {"i", "the", "a", "an", "and", "or", "but", "is", "are", "was", "were",
     "have", "has", "had", "do", "does", "did", "will", "would", "could",
     "should", "can", "may", "my", "your", "our", "their", "this", "that",
     "it", "he", "she", "we", "they", "you", "me", "him", "her", "us", "them",
     "what", "when", "where", "why", "how", "which", "who", "whom",
     "to", "for", "with", "by", "from", "at", "in", "on", "of", "as",
     "so", "if", "then", "than", "because", "while", "although", "though",
     "not", "no", "yes", "just", "only", "also", "very", "too", "much",
     "more", "most", "some", "any", "all", "each", "every", "both", "few",
     "many", "other", "another", "such", "like", "even", "still", "already",
     "been", "being", "done", "doing", "go", "going", "get", "getting",
     "make", "making", "take", "taking", "know", "think", "see", "want",
     "need", "use", "find", "give", "tell", "work", "call", "try", "ask",
     "come", "put", "mean", "keep", "let", "begin", "seem", "help", "show",
     "hear", "play", "run", "move", "live", "believe", "hold", "bring",
     "about", "into", "over", "after", "before", "between", "under", "again",
     "there", "here", "now", "always", "never", "often", "sometimes"}

\* patterns_found.extend(matches[:3]): a pattern contributes at most 3 hits
PatternHits_once(count) == Min(1, count)
PatternHits(count) == Min(3, count)

\* the verdict of detect_nonsense on the collected hits: the confidence is
\* min(1.0, 0.3 * hits), the transcript is nonsense from 0.5
NonsenseVerdict_any_hit(hits) ==
    [is_nonsense |-> hits > 0,
     confidence |-> IF hits > 0 THEN Min(10, hits * 3) ELSE 0,
     patterns_found |-> hits]
NonsenseVerdict(hits) ==
    [is_nonsense |-> hits > 0 /\ Min(10, hits * 3) >= 5,
     confidence |-> IF hits > 0 THEN Min(10, hits * 3) ELSE 0,
     patterns_found |-> hits]

\* detect_nonsense: patterns_found is the number of collected hits,
\* confidence is in tenths
detect_nonsense(transcript) ==
    IF transcript = "" \/ Len(Strip(transcript)) < 5
    THEN [is_nonsense |-> TRUE, confidence |-> 10, patterns_found |-> 0]
    ELSE
    LET transcript_lower == Lower(transcript)
        regex_hits == PatternHits(CountNonsenseWords(transcript_lower))
                    + PatternHits(CountCharRuns(transcript_lower))
                    + PatternHits(CountShortWordRuns(transcript_lower))
        words == Split(transcript_lower)
        repeated == Len(words) > 5 /\ MaxCount(words) * 10 > 3 * Len(words)
        recognized_words ==
            Cardinality({i \in 1..Len(words) : words[i] \in common_words \/ Len(words[i]) > 3})
        low_recognition == recognized_words * 10 < 3 * Len(words) /\ Len(words) > 10
    IN  NonsenseVerdict(regex_hits + (IF repeated THEN 1 ELSE 0)
                                   + (IF low_recognition THEN 1 ELSE 0))

connectors == <<"because", "therefore", "however", "although", "while", "since",
                "so", "but", "and", "then", "first", "second", "finally">>

\* calculate_answer_coherence, in whole points
calculate_answer_coherence(transcript) ==
    IF transcript = "" \/ Len(Strip(transcript)) < 10 THEN 0
    ELSE
    LET words == Split(transcript)
        word_count == Len(words)
        sentences == Sentences(transcript)
        s1 == IF Len(sentences) >= 2 THEN 15
              ELSE IF Len(sentences) = 1 /\ word_count >= 15 THEN 5
              ELSE -10
        unique_words == {Lower(words[i]) : i \in {j \in 1..word_count : Len(words[j]) > 2}}
        u == Cardinality(unique_words)
        s2 == IF word_count > 0 /\ u * 10 >= 6 * word_count THEN 15
              ELSE IF word_count > 0 /\ u * 10 >= 4 * word_count THEN 5
              ELSE IF word_count = 0 \/ u * 100 < 25 * word_count THEN -15
              ELSE 0
        transcript_lower == Lower(transcript)
        connector_count ==
            Cardinality({k \in 1..Len(connectors) : Contains(transcript_lower, connectors[k])})
        s3 == IF connector_count >= 3 THEN 10
              ELSE IF connector_count >= 1 THEN 5
              ELSE 0
        s4 == IF 30 <= word_count /\ word_count <= 200 THEN 10
              ELSE IF word_count < 15 THEN -15
              ELSE IF word_count > 300 THEN -5
              ELSE 0
    IN  Max(0, Min(100, 50 + s1 + s2 + s3 + s4))

\* One triggered gate of apply_quality_gates: its issue is appended, its
\* penalty recorded under its key and added to the total
AddPenalty_overwrite(r, key, penalty) ==
    [r EXCEPT !.issues = Append(@, key),
              !.penalties = (key :> penalty) @@ @,
              !.total_penalty = penalty]
AddPenalty(r, key, penalty) ==
    [r EXCEPT !.issues = Append(@, key),
              !.penalties = (key :> penalty) @@ @,
              !.total_penalty = @ + penalty]

\* Gate 1, the cap of an answer below the minimum word count
ShortAnswerCap_one_tier(word_count) == SCORE_CAPS.short
ShortAnswerCap(word_count) ==
    IF word_count < 10 THEN SCORE_CAPS.very_short ELSE SCORE_CAPS.short

\* Gate 8: a structure score below 30 caps the score, with no penalty
StructureGate_overwrite(r, structure_score) ==
    IF structure_score < 30 * 10
    THEN [r EXCEPT !.score_cap = SCORE_CAPS.no_structure]
    ELSE r
StructureGate(r, structure_score) ==
    IF structure_score < 30 * 10
       /\ (r.score_cap = None \/ r.score_cap > SCORE_CAPS.no_structure)
    THEN [r EXCEPT !.score_cap = SCORE_CAPS.no_structure]
    ELSE r

\* Gate 1: minimum word count
WordCountGate_cap_only(r, word_count) ==
    IF word_count < QUALITY_GATES.min_word_count.threshold
    THEN [r EXCEPT !.issues = Append(@, "short_answer"),
                   !.score_cap = ShortAnswerCap(word_count)]
    ELSE r
WordCountGate(r, word_count) ==
    IF word_count < QUALITY_GATES.min_word_count.threshold
    THEN [AddPenalty(r, "short_answer", QUALITY_GATES.min_word_count.penalty)
            EXCEPT !.score_cap = ShortAnswerCap(word_count)]
    ELSE r

\* Gate 2: minimum unique words, among the words longer than two characters
UniqueWordsGate(r, words) ==
    IF Cardinality({Lower(words[i]) : i \in {j \in 1..Len(words) : Len(words[j]) > 2}})
         < QUALITY_GATES.min_unique_words.threshold
    THEN AddPenalty(r, "low_vocabulary", QUALITY_GATES.min_unique_words.penalty)
    ELSE r

\* Gate 3: maximum filler ratio
FillerRatioGate(r, filler_count, word_count) ==
    IF word_count > 0
       /\ filler_count * 100 > QUALITY_GATES.max_filler_ratio.threshold * word_count
    THEN AddPenalty(r, "excessive_fillers", QUALITY_GATES.max_filler_ratio.penalty)
    ELSE r

\* Gate 4: minimum relevance (thousandths), when there is an ideal answer
RelevanceGate(r, relevance, ideal_answer) ==
    IF relevance < QUALITY_GATES.min_relevance.threshold * 10 /\ ideal_answer # ""
    THEN [AddPenalty(r, "off_topic", QUALITY_GATES.min_relevance.penalty)
            EXCEPT !.score_cap =
                Min(IF r.score_cap = None \/ r.score_cap = 0 THEN 100 ELSE r.score_cap,
                    SCORE_CAPS.off_topic)]
    ELSE r

\* Gate 5: repetition, among the lower-cased words longer than three characters
RepetitionGate(r, word_count, long_words) ==
    IF word_count > 10 /\ long_words # <<>>
       /\ MaxCount(long_words) * 100
            > QUALITY_GATES.max_repetition.threshold * Cardinality(SeqToSet(long_words))
    THEN AddPenalty(r, "repetitive", QUALITY_GATES.max_repetition.penalty)
    ELSE r

\* Gate 6: nonsense detection
NonsenseGate(r, is_nonsense) ==
    IF is_nonsense
    THEN [AddPenalty(r, "nonsense", 50) EXCEPT !.score_cap = SCORE_CAPS.nonsense]
    ELSE r

\* Gate 7: coherence
CoherenceGate(r, coherence) ==
    IF coherence < MIN_COHERENCE_SCORE THEN AddPenalty(r, "incoherent", 30) ELSE r

\* the lower-cased words longer than three characters
LowerAll(q) == [i \in 1..Len(q) |-> Lower(q[i])]
LongWords(words) == LowerAll(LongerThan(words, 3))

\* the result apply_quality_gates starts from
NoIssues == [issues |-> <<>>, penalties |-> <<>>, total_penalty |-> 0, score_cap |-> None]

\* the eight gates of apply_quality_gates, in order, on a transcript of
\* the given words
GateSequence(transcript, words, scores, ideal_answer) ==
    StructureGate(
      CoherenceGate(
        NonsenseGate(
          RepetitionGate(
            RelevanceGate(
              FillerRatioGate(
                UniqueWordsGate(WordCountGate(NoIssues, Len(words)), words),
                scores.filler_count, Len(words)),
              scores.relevance, ideal_answer),
            Len(words), LongWords(words)),
          detect_nonsense(transcript).is_nonsense),
        calculate_answer_coherence(transcript)),
      scores.structure)

\* apply_quality_gates.  scores carries filler_count, relevance (thousandths)
\* and structure (tenths); an issue is named by the key of its penalty.
apply_quality_gates(transcript, scores, ideal_answer) ==
    IF transcript = ""
    THEN [NoIssues EXCEPT !.issues = <<"no_answer">>, !.score_cap = 0]
    ELSE GateSequence(transcript, Split(transcript), scores, ideal_answer)

(***************************************************************************)
(* Content: keyword coverage and semantic similarity                       *)
(***************************************************************************)
IsAllAlpha(w) == \A i \in 1..Len(w) : IsAlpha(CharAt(w, i))
NotWordChar(c) == ~IsWordChar(c)
\* the maximal runs of \w characters, in order
WordRuns(s) ==
    SelectSeq(Pieces(s, {i \in 1..Len(s) : NotWordChar(CharAt(s, i))}), LAMBDA w : w # "")
\* re.findall(r'\b[a-zA-Z]{3,}\b', s)
AlphaWords(s) == SelectSeq(WordRuns(s), LAMBDA w : Len(w) >= 3 /\ IsAllAlpha(w))

\* the entries of q without repetitions, in order of first occurrence
Dedup(q) ==
    LET firsts == {i \in 1..Len(q) : \A j \in 1..(i - 1) : q[j] # q[i]}
        order == Sorted(firsts)
    IN  [k \in 1..Len(order) |-> q[order[k]]]

stop_words ==
    {"the", "a", "an", "and", "or", "but", "in", "on", "at", "to",
     "for", "of", "with", "by", "from", "as", "is", "was", "are",
     "were", "been", "be", "have", "has", "had", "do", "does", "did",
     "will", "would", "could", "should", "may", "might", "must",
     "that", "which", "who", "whom", "this", "these", "those",
     "i", "you", "he", "she", "it", "we", "they", "what", "when",
     "where", "why", "how", "all", "each", "every", "both", "few",
     "more", "most", "other", "some", "such", "no", "not", "only",
     "own", "same", "so", "than", "too", "very", "can", "just"}

\* whether key i comes before key j in sorted(word_freq.items(),
\* key=lambda x: x[1], reverse=True): by frequency, ties in order of first
\* occurrence (sorted() is stable)
Before(words, keys, i, j) ==
    \/ CountOf(words, keys[i]) > CountOf(words, keys[j])
    \/ CountOf(words, keys[i]) = CountOf(words, keys[j]) /\ i < j

\* the distinct words keys of words, sorted by frequency, the first top_n
TopKeywords(words, keys, top_n) ==
    [r \in 1..Min(top_n, Len(keys)) |->
        keys[CHOOSE i \in 1..Len(keys) :
                Cardinality({j \in 1..Len(keys) : Before(words, keys, j, i)}) = r - 1]]

\* the words extract_keywords counts: alphabetic, three letters or more,
\* not a stop word
ContentWords(text) == SelectSeq(AlphaWords(Lower(text)), LAMBDA w : w \notin stop_words)

\* extract_keywords: the top_n words by frequency
KeywordsOf(words, top_n) == TopKeywords(words, Dedup(words), top_n)
extract_keywords(text, top_n) == KeywordsOf(ContentWords(text), top_n)

\* the test of match_keywords for one keyword
KeywordFound(keyword, transcript_words) ==
    LET keyword_lower == Lower(keyword)
    IN  \/ keyword_lower \in transcript_words
        \/ \E word \in transcript_words :
              \/ Len(keyword_lower) >= 4 /\ Contains(word, SubSeq(keyword_lower, 1, 4))
              \/ Len(word) >= 4 /\ Contains(keyword_lower, SubSeq(word, 1, 4))

\* match_keywords: <<keywords_found, keywords_missing>>
match_keywords(transcript, keywords) ==
    IF transcript = "" \/ keywords = <<>> THEN <<(<<>>), keywords>>
    ELSE LET transcript_words == SeqToSet(AlphaWords(Lower(transcript)))
         IN  <<SelectSeq(keywords, LAMBDA k : KeywordFound(k, transcript_words)),
               SelectSeq(keywords, LAMBDA k : ~KeywordFound(k, transcript_words))>>

\* the keyword score of analyze_content_keywords for f of n keywords
\* found, in tenths: the coverage f / n mapped by band
KeywordScore(f, n) ==
    LET \* the score times 10 n
        scaled == IF f * 10 >= 8 * n THEN 850 * n + (f * 10 - 8 * n) * 75
                  ELSE IF f * 10 >= 6 * n THEN 700 * n + (f * 10 - 6 * n) * 75
                  ELSE IF f * 10 >= 4 * n THEN 500 * n + (f * 10 - 4 * n) * 100
                  ELSE IF f * 10 >= 2 * n THEN 300 * n + (f * 10 - 2 * n) * 100
                  ELSE f * 1500
    IN  RoundDiv(Min(1000 * n, Max(0, scaled)), n)

\* the dictionary of analyze_content_keywords for f of n keywords found
KeywordCounts(f, n) ==
    [keywords_found |-> f, keywords_extracted |-> n, score |-> KeywordScore(f, n)]

\* analyze_content_keywords once the keywords of the ideal answer are known
KeywordAnalysis(transcript, ideal_keywords) ==
    IF ideal_keywords = <<>>
    THEN [keywords_found |-> 0, keywords_extracted |-> 0, score |-> 0]
    ELSE KeywordCounts(Len(match_keywords(transcript, ideal_keywords)[1]),
                       Len(ideal_keywords))

\* analyze_content_keywords: found and total keywords, score in tenths
analyze_content_keywords(transcript, ideal_answer) ==
    IF transcript = "" \/ ideal_answer = ""
    THEN [keywords_found |-> 0, keywords_extracted |-> 0, score |-> 0]
    ELSE KeywordAnalysis(transcript, extract_keywords(ideal_answer, 15))

\* _fallback_similarity: the Jaccard index of the word sets, as <<num, den>>
_fallback_similarity(text1, text2) ==
    LET words1 == SeqToSet(Split(Lower(text1)))
        words2 == SeqToSet(Split(Lower(text2)))
        union == Cardinality(words1 \cup words2)
    IN  IF union = 0 THEN <<0, 1>> ELSE <<Cardinality(words1 \cap words2), union>>

\* _cosine_similarity: the cosine, given in ten-thousandths, moved from
\* [-1, 1] to [0, 1]; as <<num, den>>
_cosine_similarity(cosine) == <<cosine + 10000, 20000>>

\* the guard of semantic_similarity: `if not text1 or not text2`
EmptyInput_first_only(text1, text2) == text1 = ""
EmptyInput(text1, text2) == text1 = "" \/ text2 = ""

\* semantic_similarity after get_model(): the fallback when there is no
\* model or encode() raises, else the cosine held in [0, 1]
ModelSimilarity(text1, text2, encoder) ==
    IF ~encoder.available \/ encoder.raises
    THEN _fallback_similarity(text1, text2)
    ELSE LET sim == _cosine_similarity(encoder.cosine)
         IN  <<Max(0, Min(sim[2], sim[1])), sim[2]>>

\* semantic_similarity: a fraction <<num, den>> in [0, 1].  encoder says what
\* the sentence encoder does on this call: whether get_model() returns a
\* model, whether encode() raises, and the cosine of the two embeddings.
semantic_similarity(text1, text2, encoder) ==
    IF EmptyInput(text1, text2) THEN <<0, 1>>
    ELSE ModelSimilarity(text1, text2, encoder)

\* the blend of calculate_enhanced_content_score: the keyword score and the
\* boosted similarity sim = <<num, den>>, weighted by the length of the answer
BlendContent(keyword_analysis, sim, word_count) ==
    LET keyword_weight == IF word_count < 30 THEN 6 ELSE IF word_count > 100 THEN 4 ELSE 5
        \* min(100, sim * 110), times den
        semantic_score == Min(100 * sim[2], sim[1] * 110)
        \* the blended score, times 100 den
        final == keyword_analysis.score * keyword_weight * sim[2]
                 + semantic_score * (10 - keyword_weight) * 10
    IN  [final_score |-> RoundDiv(Min(100 * 100 * sim[2], Max(0, final)) * 10, 100 * sim[2]),
         semantic_similarity |-> RoundDiv(sim[1] * 1000, sim[2]),
         keyword_analysis |-> keyword_analysis]

\* calculate_enhanced_content_score: final_score in tenths,
\* semantic_similarity in thousandths
calculate_enhanced_content_score(transcript, ideal_answer, encoder) ==
    IF transcript = "" \/ Len(Strip(transcript)) < 10
    THEN [final_score |-> 0, semantic_similarity |-> 0,
          keyword_analysis |-> [keywords_found |-> 0, keywords_extracted |-> 0, score |-> 0]]
    ELSE BlendContent(analyze_content_keywords(transcript, ideal_answer),
                      semantic_similarity(transcript, ideal_answer, encoder),
                      Len(Split(transcript)))

(***************************************************************************)
(* Communication                                                           *)
(***************************************************************************)
GRAMMAR_PENALTY_PER_ERROR == 3
MAX_GRAMMAR_PENALTY == 40
\* weights in hundredths
COMMUNICATION_WEIGHTS == [grammar |-> 30, vocabulary_diversity |-> 25,
                          sentence_complexity |-> 15, coherence |-> 15,
                          professional_vocab |-> 15]
\* ratios in hundredths
TTR_EXCELLENT == 65
TTR_GOOD == 50
TTR_POOR == 30
SENTENCE_LENGTH_MIN == 8
SENTENCE_LENGTH_MAX == 30
SENTENCE_LENGTH_OPTIMAL_MIN == 12
SENTENCE_LENGTH_OPTIMAL_MAX == 20
MIN_WORDS_FOR_ANALYSIS == 20
TRANSITION_WORDS ==
    <<"first", "second", "third", "finally", "next", "then", "lastly",
      "additionally", "moreover", "furthermore", "also", "besides", "in addition",
      "however", "although", "nevertheless", "on the other hand", "conversely", "but",
      "therefore", "consequently", "as a result", "because", "thus", "hence",
      "for example", "for instance", "specifically", "such as", "namely",
      "in conclusion", "to summarize", "overall", "in summary", "ultimately">>
PROFESSIONAL_TERMS ==
    <<"implemented", "developed", "managed", "coordinated", "analyzed",
      "designed", "optimized", "established", "facilitated", "achieved",
      "collaborated", "executed", "strategized", "delegated", "evaluated",
      "led", "created", "resolved", "improved", "streamlined",
      "initiated", "delivered", "mentored", "negotiated", "presented",
      "stakeholder", "deliverable", "milestone", "objective", "deadline",
      "benchmark", "metrics", "strategy", "framework", "methodology",
      "scalable", "efficient", "innovative", "proactive", "comprehensive">>

\* the pairs of _heuristic_grammar_check: \b first \s+ second \b
grammar_patterns == << <<"i", "is">>, <<"he", "have">>, <<"she", "have">>,
                       <<"they", "was">>, <<"we", "was">>, <<"don't", "got">>,
                       <<"could", "of">>, <<"would", "of">>, <<"should", "of">> >>

\* re.search(r'\b' + first + r'\s+' + second + r'\b', s)
PairSearch(s, first, second) ==
    \E i \in 1..Len(s) :
        /\ MatchAt(s, i, first)
        /\ WordBoundary(s, i)
        /\ \E j \in (i + Len(first) + 1)..Len(s) :
              /\ \A k \in (i + Len(first))..(j - 1) : IsSpace(CharAt(s, k))
              /\ MatchAt(s, j, second)
              /\ WordBoundary(s, j + Len(second))

\* _heuristic_grammar_check: the number of patterns found
_heuristic_grammar_check(transcript) ==
    LET text_lower == Lower(transcript)
    IN  Cardinality({k \in 1..Len(grammar_patterns) :
                       PairSearch(text_lower, grammar_patterns[k][1], grammar_patterns[k][2])})

\* estimate_grammar_errors.  tool says what the grammar checker does on this
\* call: whether _get_language_tool() returns one, whether check() raises,
\* and the number of matches of type grammar or typos.
estimate_grammar_errors(transcript, tool) ==
    IF transcript = "" \/ Len(transcript) < 10 THEN 0
    ELSE IF tool.available /\ ~tool.raises THEN tool.errors
    ELSE _heuristic_grammar_check(transcript)

\* calculate_vocabulary_diversity: the score in tenths
calculate_vocabulary_diversity(transcript) ==
    IF transcript = "" THEN 0
    ELSE
    LET words == AlphaWords(Lower(transcript))
        t == Len(words)
        u == Cardinality(SeqToSet(words))
        \* ttr = u / t against a ratio in hundredths
        AtLeast(ratio) == u * 100 >= ratio * t
        \* the score in tenths as <<num, den>>, by band
        score == IF AtLeast(TTR_EXCELLENT)
                 THEN <<850 * t + (u * 100 - TTR_EXCELLENT * t) * 10, t>>
                 ELSE IF AtLeast(TTR_GOOD)
                 THEN <<700 * t * (TTR_EXCELLENT - TTR_GOOD) + (u * 100 - TTR_GOOD * t) * 150,
                        t * (TTR_EXCELLENT - TTR_GOOD)>>
                 ELSE IF AtLeast(TTR_POOR)
                 THEN <<400 * t * (TTR_GOOD - TTR_POOR) + (u * 100 - TTR_POOR * t) * 300,
                        t * (TTR_GOOD - TTR_POOR)>>
                 ELSE <<u * 100 * 400, TTR_POOR * t>>
    IN  IF t < MIN_WORDS_FOR_ANALYSIS THEN 0
        ELSE RoundDiv(Min(1000 * score[2], Max(0, score[1])), score[2])

\* analyze_sentence_complexity: the score in tenths
analyze_sentence_complexity(transcript) ==
    IF transcript = "" THEN 0
    ELSE
    LET sentences == Sentences(transcript)
        k == Len(sentences)
        lengths == [i \in 1..k |-> Len(Split(sentences[i]))]
        total == SeqSum(lengths)
        squares == SeqSum([i \in 1..k |-> lengths[i] * lengths[i]])
        \* the variance of the lengths, times k * k
        var == k * squares - total * total
        \* the penalty times k: avg_length = total / k
        penalty == IF total < SENTENCE_LENGTH_MIN * k
                   THEN (SENTENCE_LENGTH_MIN * k - total) * 5
                   ELSE IF total > SENTENCE_LENGTH_MAX * k
                   THEN (total - SENTENCE_LENGTH_MAX * k) * 3
                   ELSE IF SENTENCE_LENGTH_OPTIMAL_MIN * k <= total
                           /\ total <= SENTENCE_LENGTH_OPTIMAL_MAX * k
                   THEN 0
                   ELSE 10 * k
        bonus == IF 9 * k * k <= var /\ var <= 64 * k * k THEN 5 * k ELSE 0
        score == 100 * k - penalty + bonus
    IN  IF k < 2 THEN 500
        ELSE RoundDiv(Min(100 * k, Max(0, score)) * 10, k)

\* analyze_coherence: the score in tenths
analyze_coherence(transcript) ==
    IF transcript = "" THEN 0
    ELSE
    LET transcript_lower == Lower(transcript)
        total_words == Len(Split(transcript_lower))
        found == {k \in 1..Len(TRANSITION_WORDS) :
                    IF Contains(TRANSITION_WORDS[k], " ")
                    THEN Contains(transcript_lower, TRANSITION_WORDS[k])
                    ELSE \E i \in 1..Len(transcript_lower) :
                            WordMatchAt(transcript_lower, i, TRANSITION_WORDS[k])}
        transition_count == Cardinality(found)
        score == IF transition_count >= 5 THEN 900 + Min(10, (transition_count - 5) * 2) * 10
                 ELSE IF transition_count >= 3 THEN 750 + (transition_count - 3) * 75
                 ELSE IF transition_count >= 1 THEN 500 + (transition_count - 1) * 125
                 ELSE 400
    IN  IF total_words < MIN_WORDS_FOR_ANALYSIS THEN 0
        ELSE Min(1000, Max(0, score))

\* re.findall(r'\b' + term[:6] + r'[a-z]*\b', s)[:3] for a lower-cased s,
\* given the word runs of s
TermMatches(runs, term) ==
    LET prefix == SubSeq(term, 1, Min(6, Len(term)))
        hits == SelectSeq(runs, LAMBDA w :
                    /\ MatchAt(w, 1, prefix)
                    /\ \A i \in (Len(prefix) + 1)..Len(w) : IsLower(CharAt(w, i)))
    IN  SubSeq(hits, 1, Min(3, Len(hits)))

\* detect_professional_vocabulary: the score in tenths
detect_professional_vocabulary(transcript) ==
    IF transcript = "" THEN 0
    ELSE
    LET transcript_lower == Lower(transcript)
        total_words == Len(AlphaWords(transcript_lower))
        runs == WordRuns(transcript_lower)
        unique_terms == UNION {SeqToSet(TermMatches(runs, PROFESSIONAL_TERMS[k])) :
                                 k \in 1..Len(PROFESSIONAL_TERMS)}
        professional_count == Cardinality(unique_terms)
        score == IF professional_count >= 6
                 THEN 900 + Min(10, (professional_count - 6) * 2) * 10
                 ELSE IF professional_count >= 4 THEN 750 + (professional_count - 4) * 75
                 ELSE IF professional_count >= 2 THEN 550 + (professional_count - 2) * 100
                 ELSE IF professional_count >= 1 THEN 450
                 ELSE 350
    IN  IF total_words < MIN_WORDS_FOR_ANALYSIS THEN 0
        ELSE Min(1000, Max(0, score))

\* the grammar score of calculate_enhanced_communication_score, in tenths
GrammarScore(grammar_errors) ==
    Min(100, Max(0, 100 - grammar_errors * GRAMMAR_PENALTY_PER_ERROR)) * 10

\* the weighted sum of calculate_enhanced_communication_score
CommunicationBlend(transcript, grammar_errors) ==
    [final_score |->
        RoundDiv(GrammarScore(grammar_errors) * COMMUNICATION_WEIGHTS.grammar
                 + calculate_vocabulary_diversity(transcript)
                     * COMMUNICATION_WEIGHTS.vocabulary_diversity
                 + analyze_sentence_complexity(transcript)
                     * COMMUNICATION_WEIGHTS.sentence_complexity
                 + analyze_coherence(transcript) * COMMUNICATION_WEIGHTS.coherence
                 + detect_professional_vocabulary(transcript)
                     * COMMUNICATION_WEIGHTS.professional_vocab,
                 100),
     grammar_errors |-> grammar_errors,
     grammar_score |-> GrammarScore(grammar_errors)]

\* calculate_enhanced_communication_score: final_score and the grammar score
\* in tenths
calculate_enhanced_communication_score(transcript, tool) ==
    IF transcript = "" \/ Len(Strip(transcript)) < 10
    THEN [final_score |-> 0, grammar_errors |-> 0, grammar_score |-> None]
    ELSE CommunicationBlend(transcript, estimate_grammar_errors(transcript, tool))

(***************************************************************************)
(* score_answer                                                            *)
(***************************************************************************)
\* The weighted sum of the six category scores, in thousandths
WeightedSum(r) ==
    r.content * SCORE_WEIGHTS.content
    + r.delivery * SCORE_WEIGHTS.delivery
    + r.communication * SCORE_WEIGHTS.communication
    + r.voice * SCORE_WEIGHTS.voice
    + r.confidence * SCORE_WEIGHTS.confidence
    + r.structure * SCORE_WEIGHTS.structure

\* Section 8 of score_answer: the penalties are subtracted from the weighted
\* sum (thousandths), the cap applied, the result clamped and rounded
FinalScore_no_cap(raw_final_score, quality_result) ==
    _clamp_score(raw_final_score - quality_result.total_penalty * 1000)
FinalScore(raw_final_score, quality_result) ==
    LET penalised == raw_final_score - quality_result.total_penalty * 1000
        final_score == IF quality_result.score_cap # None
                       THEN Min(penalised, quality_result.score_cap * 1000)
                       ELSE penalised
    IN  _clamp_score(final_score)

\* The dictionary score_answer starts from, and returns for a transcript of
\* fewer than 5 characters
InitialResult ==
    [content |-> 0, delivery |-> 0, communication |-> 0, voice |-> 700,
     confidence |-> 700, structure |-> 0, final |-> 0,
     wpm |-> 0, filler_count |-> 0, grammar_errors |-> 0, relevance |-> 0]

\* video_analysis.get(key, 70.0): a missing key is None
VideoGet(video_analysis, key) ==
    IF video_analysis[key] = None THEN 700 ELSE video_analysis[key]

\* Section 4 of score_answer: <<voice score, voice_confidence>>, from
\* analyze_voice when there is an audio file and the analysis succeeds
VoiceScores_keeps_confidence(audio_path, voice) ==
    IF audio_path /\ ~voice.raises
    THEN <<_clamp_score(voice.overall), voice.voice_confidence>>
    ELSE <<700, IF audio_path THEN voice.voice_confidence ELSE 700>>
VoiceScores(audio_path, voice) ==
    IF audio_path /\ ~voice.raises
    THEN <<_clamp_score(voice.overall), voice.voice_confidence>>
    ELSE <<700, 700>>

\* Section 6 of score_answer: the confidence score from the voice confidence
\* and the video metrics
ConfidenceResult(voice_confidence, video_analysis) ==
    IF video_analysis # <<>>
    THEN calculate_confidence_score(voice_confidence,
                                    VideoGet(video_analysis[1], "eye_contact"),
                                    VideoGet(video_analysis[1], "body_stability"),
                                    VideoGet(video_analysis[1], "emotion_positivity"))
    ELSE calculate_confidence_score(voice_confidence, 700, 700, 700)

\* Sections 1 to 6 of score_answer: the result dictionary before the gates
CategoryScores(content_analysis, wpm, filler_count, comm_analysis, voice, video_analysis, structure_analysis) ==
    [content |-> _clamp_score(content_analysis.final_score * 100),
     delivery |-> DeliveryScore(wpm, filler_count),
     communication |-> _clamp_score(comm_analysis.final_score * 100),
     voice |-> voice[1],
     confidence |-> _clamp_score(ConfidenceResult(voice[2], video_analysis) * 100),
     structure |-> _clamp_score(structure_analysis.final_score * 100),
     final |-> 0,
     wpm |-> wpm,
     filler_count |-> filler_count,
     grammar_errors |-> comm_analysis.grammar_errors,
     relevance |-> content_analysis.semantic_similarity]

\* Section 8 of score_answer: the returned dictionary, and the quality result
ScoredResult(scores, quality_result) ==
    << [content |-> scores.content,
        delivery |-> scores.delivery,
        communication |-> scores.communication,
        voice |-> scores.voice,
        confidence |-> scores.confidence,
        structure |-> scores.structure,
        final |-> FinalScore(WeightedSum(scores), quality_result),
        wpm |-> scores.wpm,
        filler_count |-> scores.filler_count,
        grammar_errors |-> scores.grammar_errors,
        relevance |-> scores.relevance,
        quality_issues |-> quality_result.issues,
        quality_penalties |-> quality_result.penalties,
        raw_final |-> _clamp_score(WeightedSum(scores))],
       <<quality_result>> >>

\* Sections 7 and 8 of score_answer: the quality gates on the category scores
GatedResult(transcript, scores, ideal_answer) ==
    ScoredResult(scores, apply_quality_gates(transcript, scores, ideal_answer))

\* score_answer.  req is the call: transcript, duration_seconds, ideal_answer,
\* audio_path (whether one is given) and video_analysis (<<>> for None or an
\* empty dictionary, else <<d>>); env is what the collaborators do during
\* the call: the sentence encoder, the grammar checker, analyze_voice.
\* The value is <<result, quality>>: the returned dictionary and, when the
\* quality gates ran, <<quality_result>>.
score_answer(req, env) ==
    IF req.transcript = "" \/ Len(Strip(req.transcript)) < 5
    THEN <<InitialResult, <<>> >>
    ELSE GatedResult(
           req.transcript,
           CategoryScores(
             calculate_enhanced_content_score(req.transcript, req.ideal_answer, env.encoder),
             compute_wpm(req.transcript, req.duration_seconds),
             count_fillers(req.transcript),
             calculate_enhanced_communication_score(req.transcript, env.tool),
             VoiceScores(req.audio_path, env.voice),
             req.video_analysis,
             calculate_structure_score(req.transcript)),
           req.ideal_answer)

(***************************************************************************)
(* score_answer_by_keywords                                                *)
(***************************************************************************)
\* The dictionary score_answer_by_keywords starts from, and returns for a
\* transcript of fewer than 5 characters
KeywordInitialResult ==
    [content |-> 0, delivery |-> 0, communication |-> 0, final |-> 0,
     wpm |-> 0, filler_count |-> 0, grammar_errors |-> 0, relevance |-> 0,
     keywords_found |-> <<>>, keywords_missing |-> <<>>, keyword_match_pct |-> 0]

\* Section 1 with keywords: the share of the keywords found is the content
\* score (tenths) and the relevance (thousandths).  matched is what
\* match_keywords returned, n the number of keywords.
KeywordMatchContent(matched, n) ==
    [content |-> RoundDiv(Min(1000 * n, Max(0, Len(matched[1]) * 1000)), n),
     relevance |-> RoundDiv(Len(matched[1]) * 1000, n),
     keywords_found |-> matched[1],
     keywords_missing |-> matched[2],
     keyword_match_pct |-> RoundDiv(Len(matched[1]) * 1000, n)]

\* Section 1 without keywords but with an ideal answer: the similarity
\* <<num, den>> times 100 is the content score
SimilarityContent(sim) ==
    [content |-> RoundDiv(sim[1] * 1000, sim[2]),
     relevance |-> RoundDiv(sim[1] * 1000, sim[2]),
     keywords_found |-> <<>>, keywords_missing |-> <<>>, keyword_match_pct |-> 0]

\* Section 1 with neither: the default middle score
DefaultContent ==
    [content |-> 500, relevance |-> 0,
     keywords_found |-> <<>>, keywords_missing |-> <<>>, keyword_match_pct |-> 0]

\* Section 1 of score_answer_by_keywords
KeywordContent(transcript, keywords, ideal_answer, encoder) ==
    IF keywords # <<>>
    THEN KeywordMatchContent(match_keywords(transcript, keywords), Len(keywords))
    ELSE IF ideal_answer # ""
    THEN SimilarityContent(semantic_similarity(transcript, ideal_answer, encoder))
    ELSE DefaultContent

\* Section 2 of score_answer_by_keywords: 100 less the pace penalty and
\* three points a filler, at most 20
KeywordDelivery(wpm, filler_count) ==
    RoundDiv(Max(0, Min(100000,
                        (100 - get_wpm_assessment(wpm) - Min(20, filler_count * 3)) * 1000)),
             100)

\* Section 4 of score_answer_by_keywords: the three scores times their
\* entries of SCORE_WEIGHTS, in thousandths
KeywordWeightedSum(content, delivery, communication) ==
    content * SCORE_WEIGHTS.content
    + delivery * SCORE_WEIGHTS.delivery
    + communication * SCORE_WEIGHTS.communication

\* Sections 2 to 4 of score_answer_by_keywords put into the dictionary
KeywordResult(c, wpm, filler_count, delivery, comm_analysis, communication) ==
    [content |-> c.content,
     delivery |-> delivery,
     communication |-> communication,
     final |-> RoundDiv(Max(0, Min(100000,
                  KeywordWeightedSum(c.content, delivery, communication))), 100),
     wpm |-> wpm,
     filler_count |-> filler_count,
     grammar_errors |-> comm_analysis.grammar_errors,
     relevance |-> c.relevance,
     keywords_found |-> c.keywords_found,
     keywords_missing |-> c.keywords_missing,
     keyword_match_pct |-> c.keyword_match_pct]

\* the scores of sections 2 and 3 from what they measure
KeywordSections(c, wpm, filler_count, comm_analysis) ==
    KeywordResult(c, wpm, filler_count,
                  KeywordDelivery(wpm, filler_count),
                  comm_analysis,
                  Max(0, Min(1000, comm_analysis.final_score)))

\* score_answer_by_keywords.  keywords is the list of the question's
\* keywords; env is what the collaborators do during the call.
score_answer_by_keywords(transcript, keywords, duration_seconds, ideal_answer, env) ==
    IF transcript = "" \/ Len(Strip(transcript)) < 5
    THEN KeywordInitialResult
    ELSE KeywordSections(
           KeywordContent(transcript, keywords, ideal_answer, env.encoder),
           compute_wpm(transcript, duration_seconds),
           count_fillers(transcript),
           calculate_enhanced_communication_score(transcript, env.tool))

(***************************************************************************)
(* The answers, reference answers and collaborator behaviours explored     *)
(***************************************************************************)
\* the largest number of filler words put into a fifteen-word answer
MaxFillers == 4
\* the largest number of errors the grammar checker reports
MaxToolErrors == 2

NumberWords == <<"one", "two", "three", "four", "five", "six", "seven", "eight",
                 "nine", "ten", "eleven", "twelve", "thirteen", "fourteen",
                 "fifteen", "sixteen", "seventeen">>
RECURSIVE JoinWords(_)
JoinWords(q) ==
    IF q = <<>> THEN ""
    ELSE IF Len(q) = 1 THEN q[1]
    ELSE q[1] \o " " \o JoinWords(Tail(q))
\* an answer of n distinct words without fillers
PaceTranscript(n) == JoinWords(SubSeq(NumberWords, 1, n))
\* a fifteen-word answer, n of whose words are the filler "um"
FillerTranscript(n) ==
    JoinWords(SubSeq(NumberWords, 1, 15 - n) \o [k \in 1..n |-> "um"])

\* a 28-word answer with three STAR components that triggers no gate
GoodAnswer ==
    "When I joined the support group customers waited long. "
    \o "I wanted a shorter queue. "
    \o "I organized daily reviews and trained two people. "
    \o "As a result waiting time dropped."
StarAnswer ==
    "When I was at my last job, there was a challenge. I had to fix the deadline. "
    \o "I implemented a plan. As a result we improved sales by ten percent."
RelatedIdeal ==
    "I organized daily reviews and trained people so the waiting time for customers dropped"
UnrelatedIdeal == "We rebuilt the billing platform"

TooShortTranscripts == {"", "hi", "     ", "abcd", " ok. "}
VeryShortTranscripts ==
    {"asdf asdf asdf asdf asdf", "I led.", "I think the answer is yes",
     "I organized daily reviews so waiting time dropped", "test test",
     "this is a test of the system", "Testing, testing. Hey!",
     PaceTranscript(9)}
ShortTranscripts ==
    {"a b c d e f g h i j", "I go to a we do it by me on us at no",
     "I led the team and we delivered the project on time."}
    \cup {PaceTranscript(n) : n \in {10, 12, 13, 14}}
LongTranscripts ==
    {PaceTranscript(n) : n \in 15..17}
    \cup {FillerTranscript(n) : n \in 1..MaxFillers}
    \cup {"the the the the the the the the the the the the the the the the",
          "project project project project project project deadline budget customer "
          \o "quality planning meeting review release support roadmap",
          "um like you know I mean basically it was kind of okay so well anyway",
          FillerTranscript(15),
          GoodAnswer, StarAnswer}
Transcripts ==
    TooShortTranscripts \cup VeryShortTranscripts \cup ShortTranscripts
    \cup LongTranscripts
Ideals == {"", RelatedIdeal, UnrelatedIdeal}
\* durations of the recording, in tenths of a second
Durations == {0, 60}
\* durations of a second recording of the same answer
RetryDurations == {36, 60}
\* the duration at which the good answer runs at 240 words per minute
GoodDuration == 70

\* the sentence encoder: not loaded, failing, or giving a cosine (in 1/10000)
NoEncoder == [available |-> FALSE, raises |-> FALSE, cosine |-> 0]
Cosines == {-10000, 0, 4000, 10000}
Encoders ==
    {NoEncoder, [available |-> TRUE, raises |-> TRUE, cosine |-> 0]}
    \cup {[available |-> TRUE, raises |-> FALSE, cosine |-> c] : c \in Cosines}
\* the grammar checker: not installed, failing, or reporting some errors
NoTool == [available |-> FALSE, raises |-> FALSE, errors |-> 0]
Tools ==
    {NoTool, [available |-> TRUE, raises |-> TRUE, errors |-> 0]}
    \cup {[available |-> TRUE, raises |-> FALSE, errors |-> e] : e \in 0..MaxToolErrors}
\* analyze_voice: failing, or giving an overall score (in thousandths) and a
\* voice confidence (in tenths)
NoVoice == [raises |-> TRUE, overall |-> 0, voice_confidence |-> 0]
\* VoiceAnalyzer._get_default_scores: what analyze_voice reports when the
\* audio cannot be loaded or the analysis fails inside the analyzer
DefaultVoice == [raises |-> FALSE, overall |-> 70000, voice_confidence |-> 700]
Voices ==
    {NoVoice, DefaultVoice}
    \cup {[raises |-> FALSE, overall |-> v[1], voice_confidence |-> v[2]] :
            v \in {<<82000, 820>>, <<70140, 693>>, <<0, 0>>, <<100000, 1000>>}}
\* the video signals sent by the client: none, complete, partial, out of range
Videos ==
    {<<>>,
     <<[eye_contact |-> 820, body_stability |-> 820, emotion_positivity |-> 820]>>,
     <<[eye_contact |-> None, body_stability |-> 1000, emotion_positivity |-> 0]>>,
     <<[eye_contact |-> 3000, body_stability |-> 3000, emotion_positivity |-> 3000]>>}

NoEnv == [encoder |-> NoEncoder, tool |-> NoTool, voice |-> NoVoice]
Req(t, d, i, a, v) ==
    [transcript |-> t, duration_seconds |-> d, ideal_answer |-> i,
     audio_path |-> a, video_analysis |-> v]
\* the encoder and grammar checker under which the good answer scores 82
\* for content and communication
GoodEncoder == [available |-> TRUE, raises |-> FALSE, cosine |-> 0]
GoodTool == [available |-> TRUE, raises |-> FALSE, errors |-> 0]
\* every answer against every reference answer, no collaborator available
PlainCalls ==
    {<<Req(t, d, i, FALSE, <<>>), NoEnv>> :
        t \in Transcripts, d \in Durations, i \in Ideals}
\* a few answers under every encoder and every grammar checker
CollaboratorCalls ==
    {<<Req(t, GoodDuration, RelatedIdeal, FALSE, <<>>),
       [encoder |-> c[1], tool |-> c[2], voice |-> NoVoice]>> :
        t \in {GoodAnswer, "I organized daily reviews so waiting time dropped",
               "asdf asdf asdf asdf asdf"},
        c \in (Encoders \X {NoTool}) \cup ({NoEncoder} \X Tools)}
\* an encoder that finds the good answer unrelated to the reference answer
OppositeEncoder == [available |-> TRUE, raises |-> FALSE, cosine |-> -10000]
\* the good answer with a recording under every voice analysis, and with
\* every video signal; and the good answer found off topic while voice and
\* video are perfect
SignalCalls ==
    {<<Req(GoodAnswer, GoodDuration, RelatedIdeal, TRUE, v),
       [encoder |-> GoodEncoder, tool |-> GoodTool, voice |-> w]>> :
        v \in {<<>>, <<[eye_contact |-> 820, body_stability |-> 820,
                        emotion_positivity |-> 820]>>},
        w \in Voices}
    \cup {<<Req(GoodAnswer, GoodDuration, RelatedIdeal, FALSE, v),
            [encoder |-> GoodEncoder, tool |-> GoodTool, voice |-> NoVoice]>> :
        v \in Videos}
    \cup {<<Req(GoodAnswer, GoodDuration, RelatedIdeal, TRUE,
                <<[eye_contact |-> 1000, body_stability |-> 1000,
                   emotion_positivity |-> 1000]>>),
            [encoder |-> OppositeEncoder, tool |-> GoodTool,
             voice |-> [raises |-> FALSE, overall |-> 100000,
                        voice_confidence |-> 1000]]>>}
\* the encoder on two equal texts: the embeddings are equal, the cosine is 1
SameTextEncoder == [available |-> TRUE, raises |-> FALSE, cosine |-> 10000]
\* answers that repeat the reference answer word for word: one of eight
\* characters, one without a keyword, one with keywords; with the encoder,
\* without it, and with the encoder failing
IdenticalCalls ==
    {<<Req(t, GoodDuration, t, FALSE, <<>>),
       [encoder |-> e, tool |-> NoTool, voice |-> NoVoice]>> :
        t \in {"hi there", "I go to a we do it by me on us at no", RelatedIdeal},
        e \in {NoEncoder, SameTextEncoder,
               [available |-> TRUE, raises |-> TRUE, cosine |-> 0]}}
\* a grammar checker that reports fourteen matches
SloppyTool == [available |-> TRUE, raises |-> FALSE, errors |-> 14]
\* seventeen words spoken in 5.6 seconds (182.1 words per minute); the good
\* answer under the grammar checker that reports fourteen matches; nineteen
\* words of which "plan" is two of the seven longer than three characters;
\* twelve words of which three are longer than three characters, each once;
\* nine words that repeat the reference answer, spoken at 150 words per
\* minute, with perfect voice and video
BehaviourCalls ==
    {<<Req(PaceTranscript(17), 56, "", FALSE, <<>>), NoEnv>>,
     <<Req(GoodAnswer, GoodDuration, RelatedIdeal, FALSE, <<>>),
       [encoder |-> GoodEncoder, tool |-> SloppyTool, voice |-> NoVoice]>>,
     <<Req("the team had a plan and the plan was to cut cost and risk in time for our goal",
           60, "", FALSE, <<>>), NoEnv>>,
     <<Req("we do it by me on us at no team plan risk", 60, "", FALSE, <<>>), NoEnv>>,
     <<Req("When I led reviews. As a result waiting dropped.", 36,
           "When I led reviews. As a result waiting dropped.", TRUE,
           <<[eye_contact |-> 1000, body_stability |-> 1000,
              emotion_positivity |-> 1000]>>),
       [encoder |-> SameTextEncoder, tool |-> GoodTool,
        voice |-> [raises |-> FALSE, overall |-> 100000,
                   voice_confidence |-> 1000]]>>}
Calls ==
    PlainCalls \cup CollaboratorCalls \cup SignalCalls \cup IdenticalCalls
    \cup BehaviourCalls

\* the keyword lists of the questions that have keywords
KeywordLists ==
    {<<"reviews", "queue">>,
     <<"Budget">>,
     <<"customers", "billing", "platform", "cloud">>,
     <<"one", "two", "three", "team", "plan", "risk", "cost">>}
\* answers to questions with keywords: <<request, env, keywords>>
KeywordCalls ==
    {<<Req(t, d, i, TRUE, <<>>), [NoEnv EXCEPT !.tool = c], k>> :
        t \in {GoodAnswer, "I led.", "hi", PaceTranscript(15), FillerTranscript(MaxFillers),
               "queue reviews"},
        d \in {GoodDuration},
        i \in {"", RelatedIdeal},
        c \in {NoTool, GoodTool},
        k \in KeywordLists}
\* the answers uploaded: to a question without keywords, or with some
Uploads == {<<c[1], c[2], <<>> >> : c \in Calls} \cup KeywordCalls

(***************************************************************************)
(* key_manager.py: KeyStatus and the rotation of GeminiKeyManager          *)
(***************************************************************************)
\* the number of API keys the manager is constructed with
NumKeys == 3
\* the clock (datetime.utcnow) counts hours and is followed up to MaxTime
MaxTime == 2
\* the number of calls of get_next_healthy_key followed
MaxKeyCalls == 7
\* the consecutive failures of one key followed
MaxFailures == 3
\* the number of calls of mark_call_result followed
MaxMarkCalls == 5
\* the cooldown of a key whose quota is exceeded: timedelta(hours=1)
COOLDOWN_HOURS == 1
\* the words that make an error message a quota error
QUOTA_INDICATORS == <<"429", "quota", "resource exhausted", "rate limit">>

\* KeyStatus(key, key_id) as constructed; cooldown_until is None or an hour
NewKeyStatus(i) ==
    [key_id |-> i, is_healthy |-> TRUE, consecutive_failures |-> 0,
     cooldown_until |-> None]

\* KeyStatus.mark_success
mark_success(status) ==
    [status EXCEPT !.consecutive_failures = 0, !.is_healthy = TRUE,
                   !.cooldown_until = None]

\* KeyStatus.mark_failure at the hour t
mark_failure_two_strikes(status, is_quota_error, t) ==
    IF is_quota_error
    THEN [status EXCEPT !.consecutive_failures = @ + 1,
                        !.cooldown_until = t + COOLDOWN_HOURS,
                        !.is_healthy = FALSE]
    ELSE IF status.consecutive_failures + 1 >= 2
    THEN [status EXCEPT !.consecutive_failures = @ + 1, !.is_healthy = FALSE]
    ELSE [status EXCEPT !.consecutive_failures = @ + 1]
mark_failure(status, is_quota_error, t) ==
    IF is_quota_error
    THEN [status EXCEPT !.consecutive_failures = @ + 1,
                        !.cooldown_until = t + COOLDOWN_HOURS,
                        !.is_healthy = FALSE]
    ELSE IF status.consecutive_failures + 1 >= 3
    THEN [status EXCEPT !.consecutive_failures = @ + 1, !.is_healthy = FALSE]
    ELSE [status EXCEPT !.consecutive_failures = @ + 1]

\* KeyStatus.is_in_cooldown at the hour t
is_in_cooldown(status, t) ==
    IF status.cooldown_until # None THEN t < status.cooldown_until ELSE FALSE

\* KeyStatus.is_usable at the hour t
is_usable_in_cooldown_only(status, t) == ~is_in_cooldown(status, t)
is_usable(status, t) == status.is_healthy /\ ~is_in_cooldown(status, t)

\* the test of mark_call_result for a quota error; error is "" for None
IsQuotaError(error) ==
    /\ error # ""
    /\ \E k \in 1..Len(QUOTA_INDICATORS) : Contains(Lower(error), QUOTA_INDICATORS[k])

\* the index after index i of n keys (round-robin)
NextIndex_stays(i, n) == i
NextIndex(i, n) == (i + 1) % n

\* the end of the loop of get_next_healthy_key: attempts < max_attempts fails
LoopEnds_one_short(attempts, max_attempts) == attempts >= max_attempts - 1
LoopEnds(attempts, max_attempts) == attempts >= max_attempts

\* the loop of get_next_healthy_key at the hour t: from current_index (counted
\* from 0) the statuses are tried in turn, at most once each.  The value is
\* the key_id found (0 when the loop ends without one), the index left in
\* current_index and the number of statuses examined.
RECURSIVE ScanKeys(_, _, _, _)
ScanKeys(statuses, index, attempts, t) ==
    IF LoopEnds(attempts, Len(statuses))
    THEN [key_id |-> 0, current_index |-> index, examined |-> attempts]
    ELSE IF is_usable(statuses[index + 1], t)
    THEN [key_id |-> statuses[index + 1].key_id,
          current_index |-> NextIndex(index, Len(statuses)),
          examined |-> attempts + 1]
    ELSE ScanKeys(statuses, NextIndex(index, Len(statuses)), attempts + 1, t)

\* reset_key_health for one status
reset_status(status) ==
    [status EXCEPT !.is_healthy = TRUE, !.consecutive_failures = 0,
                   !.cooldown_until = None]

\* the error messages mark_call_result is called with ("" for None)
KeyErrors == {"", "429 Resource has been exhausted", "timeout"}
\* how the calls end that mark_call_result reports: <<success, error>>
CallResults == {<<TRUE, "">>} \cup {<<FALSE, error>> : error \in KeyErrors}
\* for each of them, whether mark_call_result takes it for a quota error
QuotaErrors == [error \in KeyErrors |-> IsQuotaError(error)]

(***************************************************************************)
(* The scoring endpoint as a state machine                                 *)
(***************************************************************************)
VARIABLES
    pc,        \* "idle", "scoring" (score_answer entered), "returned"
    request,   \* the arguments of the call of score_answer
    env,       \* what the collaborators do during the call
    result,    \* the dictionary score_answer returned
    quality,   \* <<quality_result>> when the quality gates ran, else <<>>
    prev,      \* request and result of the call before, <<>> when none
    _sentence_model,  \* the module global of ml_engine: 0 for None, else
                      \* the number of the SentenceTransformer it holds
    _language_tool,   \* the module global: 0 for None, else the number of
                      \* the LanguageTool it holds
    constructed,      \* how many models and tools were constructed so far
    assigned,         \* how many times each global was assigned
    threads,          \* the threads calling into ml_engine concurrently
    history,          \* the calls of score_answer that returned so far:
                      \* request, collaborators and what was returned
    keywords,         \* the keywords of the question answered
    keyword_result,   \* the dictionary score_answer_by_keywords returned
    key_statuses,     \* GeminiKeyManager.key_statuses
    current_index,    \* GeminiKeyManager.current_index
    rotation_count,   \* GeminiKeyManager.rotation_count
    now,              \* datetime.utcnow(), in hours
    key_out,          \* what get_next_healthy_key did when it was the last
                      \* call: "returned" with the key_id, or "raised"
    key_calls,        \* how many calls of get_next_healthy_key returned a key
    always_usable,    \* whether every key was usable at all times so far
    total_calls,      \* GeminiKeyManager.total_calls
    successful_calls, \* GeminiKeyManager.successful_calls
    failed_calls      \* GeminiKeyManager.failed_calls

scoring_vars == <<pc, request, env, result, quality, prev>>
module_vars == <<_sentence_model, _language_tool, constructed, assigned>>
loader_vars == <<threads>>
session_vars == <<history>>
keyword_vars == <<keywords, keyword_result>>
stat_vars == <<total_calls, successful_calls, failed_calls>>
key_vars == <<key_statuses, current_index, rotation_count, now, key_out, key_calls, always_usable, stat_vars>>
vars == <<scoring_vars, module_vars, loader_vars, session_vars, keyword_vars, key_vars>>

\* the module as imported: nothing loaded, nothing constructed
ModuleInit ==
    /\ _sentence_model = 0
    /\ _language_tool = 0
    /\ constructed = [model |-> 0, tool |-> 0]
    /\ assigned = [model |-> 0, tool |-> 0]

\* the number of threads that call into the module at the same time
NumThreads == 2
Threads == 1..NumThreads
\* a thread that has not called yet
IdleThread ==
    [pc |-> "idle", fn |-> "", text1 |-> "", text2 |-> "", available |-> FALSE,
     made |-> 0, local |-> 0, consulted |-> FALSE, ret |-> <<>>]

Init ==
    /\ pc = "idle"
    /\ request = Req("", 0, "", FALSE, <<>>)
    /\ env = NoEnv
    /\ result = InitialResult
    /\ quality = <<>>
    /\ prev = <<>>
    /\ ModuleInit
    /\ threads = [t \in Threads |-> IdleThread]
    /\ history = {}
    /\ keywords = <<>>
    /\ keyword_result = KeywordInitialResult
    /\ key_statuses = [i \in 1..NumKeys |-> NewKeyStatus(i)]
    /\ current_index = 0
    /\ rotation_count = 0
    /\ now = 0
    /\ key_out = [op |-> "none", key_id |-> 0, examined |-> 0]
    /\ key_calls = 0
    /\ always_usable = TRUE
    /\ total_calls = 0
    /\ successful_calls = 0
    /\ failed_calls = 0

\* the mode upload_audio and submit_answer select: keyword matching when
\* the question has keywords, else score_answer
ScoringMode(question_keywords) ==
    IF question_keywords # <<>> THEN "scoring_keywords" ELSE "scoring"

\* the first submission of an answer: the endpoint selects the mode
Submit ==
    /\ pc = "idle"
    /\ \E c \in Uploads : request' = c[1] /\ env' = c[2] /\ keywords' = c[3]
    /\ pc' = ScoringMode(keywords')
    /\ UNCHANGED <<result, quality, prev, keyword_result>>
    /\ UNCHANGED <<module_vars, loader_vars, session_vars, key_vars>>

\* load_models(): the global afterwards.  model is the global before
\* (0 for None), made the number of models constructed so far.
load_models(model, encoder, made) ==
    IF model = 0 /\ encoder.available THEN made + 1 ELSE model

\* get_model(): the model returned, after load_models() when there was none
get_model_before_load(model, encoder, made) == model
get_model(model, encoder, made) ==
    IF model = 0 THEN load_models(model, encoder, made) ELSE model

\* _get_language_tool(): the tool returned, which is also the global
\* afterwards
_get_language_tool(tool, checker, made) ==
    IF tool = 0 /\ checker.available THEN made + 1 ELSE tool

\* whether score_answer reaches get_model(): the content score is computed
\* (10 characters or more) and semantic_similarity gets two non-empty texts
ModelConsulted(req) ==
    /\ Len(Strip(req.transcript)) >= 10
    /\ ~EmptyInput(req.transcript, req.ideal_answer)
\* whether score_answer reaches _get_language_tool()
ToolConsulted(req) == Len(Strip(req.transcript)) >= 10

\* the collaborators as this call finds them: a model or tool that the
\* module holds is used, one that it does not hold is loaded first
EnvOfCall(req, e) ==
    [e EXCEPT
       !.encoder.available =
           ModelConsulted(req) /\ get_model(_sentence_model, e.encoder, constructed.model) # 0,
       !.tool.available =
           ToolConsulted(req) /\ _get_language_tool(_language_tool, e.tool, constructed.tool) # 0]

\* the module globals after score_answer ran
ModuleAfterCall(req, e) ==
    /\ _sentence_model' =
          IF ModelConsulted(req)
          THEN load_models(_sentence_model, e.encoder, constructed.model)
          ELSE _sentence_model
    /\ _language_tool' =
          IF ToolConsulted(req)
          THEN _get_language_tool(_language_tool, e.tool, constructed.tool)
          ELSE _language_tool
    /\ constructed' =
          [model |-> IF _sentence_model' # _sentence_model THEN constructed.model + 1
                     ELSE constructed.model,
           tool |-> IF _language_tool' # _language_tool THEN constructed.tool + 1
                    ELSE constructed.tool]
    /\ assigned' =
          [model |-> IF _sentence_model' # _sentence_model THEN assigned.model + 1
                     ELSE assigned.model,
           tool |-> IF _language_tool' # _language_tool THEN assigned.tool + 1
                    ELSE assigned.tool]

\* score_answer runs to its return
ScoreAnswer ==
    /\ pc = "scoring"
    /\ LET out == score_answer(request, EnvOfCall(request, env))
       IN  result' = out[1] /\ quality' = out[2]
    /\ ModuleAfterCall(request, env)
    /\ pc' = "returned"
    /\ UNCHANGED <<request, env, prev>>
    /\ UNCHANGED <<loader_vars, session_vars, keyword_vars, key_vars>>

\* the language tool after score_answer_by_keywords ran: the communication
\* score consults it for a transcript of 10 characters or more
ToolAfterKeywordCall(req, e) ==
    IF ToolConsulted(req)
    THEN _get_language_tool(_language_tool, e.tool, constructed.tool)
    ELSE _language_tool

\* score_answer_by_keywords runs to its return.  With keywords the sentence
\* model is not consulted.
ScoreAnswerByKeywords ==
    /\ pc = "scoring_keywords"
    /\ keyword_result' =
          score_answer_by_keywords(
            request.transcript, keywords, request.duration_seconds,
            request.ideal_answer,
            [env EXCEPT !.tool.available = ToolAfterKeywordCall(request, env) # 0])
    /\ _language_tool' = ToolAfterKeywordCall(request, env)
    /\ constructed' =
          [constructed EXCEPT
             !.tool = IF _language_tool' # _language_tool THEN @ + 1 ELSE @]
    /\ assigned' =
          [assigned EXCEPT
             !.tool = IF _language_tool' # _language_tool THEN @ + 1 ELSE @]
    /\ pc' = "returned_keywords"
    /\ UNCHANGED <<request, env, result, quality, prev, _sentence_model, keywords>>
    /\ UNCHANGED <<loader_vars, session_vars, key_vars>>

\* the same answer is scored again, its recording lasting d
Resubmit ==
    /\ pc = "returned"
    /\ \E d \in RetryDurations : request' = [request EXCEPT !.duration_seconds = d]
    /\ prev' = <<[duration_seconds |-> request.duration_seconds,
                  wpm |-> result.wpm, filler_count |-> result.filler_count,
                  delivery |-> result.delivery, final |-> result.final]>>
    /\ pc' = "scoring"
    /\ UNCHANGED <<env, result, quality>>
    /\ UNCHANGED <<module_vars, loader_vars, session_vars, keyword_vars, key_vars>>

Next == Submit \/ ScoreAnswer \/ ScoreAnswerByKeywords \/ Resubmit

Spec == Init /\ [][Next]_vars

(***************************************************************************)
(* A process that scores one answer after another.  The collaborators are  *)
(* deterministic: what the encoder, the grammar checker and the voice      *)
(* analysis do is a function of the call, and whether the model and the    *)
(* tool can be constructed is the same at every call.                      *)
(***************************************************************************)
\* the requests of a session: one that consults model and tool, one that
\* consults the tool only, and two too short to consult either
SessionRequests ==
    {Req(GoodAnswer, GoodDuration, RelatedIdeal, FALSE, <<>>),
     Req(GoodAnswer, GoodDuration, "", FALSE, <<>>),
     Req("test test", GoodDuration, RelatedIdeal, FALSE, <<>>),
     Req("hi", GoodDuration, RelatedIdeal, FALSE, <<>>)}
\* every request where the model and the tool can or cannot be constructed
SessionCalls ==
    {<<r, [encoder |-> [available |-> d[1], raises |-> FALSE, cosine |-> 4000],
           tool |-> [available |-> d[2], raises |-> FALSE, errors |-> 1],
           voice |-> NoVoice]>> :
        r \in SessionRequests, d \in BOOLEAN \X BOOLEAN}

\* the constructors do at this call what they did at the calls before
SameDeployment(e) ==
    \A h \in history :
        /\ h.env.encoder.available = e.encoder.available
        /\ h.env.tool.available = e.tool.available

\* the next answer of the session is submitted
SessionSubmit ==
    /\ pc = "idle"
    /\ \E c \in SessionCalls :
          /\ SameDeployment(c[2])
          /\ request' = c[1] /\ env' = c[2]
    /\ pc' = "scoring"
    /\ UNCHANGED <<result, quality, prev>>
    /\ UNCHANGED <<module_vars, loader_vars, session_vars, keyword_vars, key_vars>>

\* the caller has consumed the result; the module keeps what it loaded
SessionDone ==
    /\ pc = "returned"
    /\ history' = history \cup {[request |-> request, env |-> env,
                                 result |-> result, quality |-> quality]}
    /\ pc' = "idle"
    /\ UNCHANGED <<request, env, result, quality, prev>>
    /\ UNCHANGED <<module_vars, loader_vars, keyword_vars, key_vars>>

SessionNext == SessionSubmit \/ ScoreAnswer \/ SessionDone

SessionSpec == Init /\ [][SessionNext]_vars

(***************************************************************************)
(* Concurrent callers of semantic_similarity and estimate_grammar_errors.  *)
(* The module takes no lock: a thread can be suspended between any two     *)
(* statements, and between the construction of a model or tool and its     *)
(* assignment to the module global.                                        *)
(***************************************************************************)
LoaderText == "we shipped it early"
\* the calls a thread makes: semantic_similarity(text1, text2) or
\* estimate_grammar_errors(text1); available says whether the constructor
\* of the model or tool succeeds when this thread runs it
LoaderCalls ==
    {[fn |-> "semantic_similarity", text1 |-> x[1], text2 |-> x[2], available |-> a] :
        x \in {<<"", LoaderText>>, <<LoaderText, "">>, <<"", "">>,
               <<LoaderText, "we shipped late">>},
        a \in BOOLEAN}
    \cup {[fn |-> "estimate_grammar_errors", text1 |-> x, text2 |-> "", available |-> a] :
        x \in {"", "they was late and i is sorry"}, a \in BOOLEAN}

\* the module global a call works on
GlobalOf(fn) == IF fn = "semantic_similarity" THEN _sentence_model ELSE _language_tool
KindOf(fn) == IF fn = "semantic_similarity" THEN "model" ELSE "tool"

\* a thread enters semantic_similarity or estimate_grammar_errors
LoaderCall(t) ==
    /\ threads[t].pc = "idle"
    /\ \E c \in LoaderCalls :
          threads' = [threads EXCEPT ![t] =
                        [IdleThread EXCEPT !.pc = "entry", !.fn = c.fn, !.text1 = c.text1,
                                           !.text2 = c.text2, !.available = c.available]]
    /\ UNCHANGED <<scoring_vars, module_vars, session_vars, keyword_vars, key_vars>>

\* the guard at the top of the function: semantic_similarity returns 0.0
\* for an empty text, estimate_grammar_errors 0 for fewer than 10 characters
LoaderEntry(t) ==
    /\ threads[t].pc = "entry"
    /\ LET th == threads[t]
       IN  IF th.fn = "semantic_similarity"
           THEN IF EmptyInput(th.text1, th.text2)
                THEN threads' = [threads EXCEPT ![t].pc = "done", ![t].ret = <<0, 1>>]
                ELSE threads' = [threads EXCEPT ![t].pc = "get"]
           ELSE IF th.text1 = "" \/ Len(th.text1) < 10
                THEN threads' = [threads EXCEPT ![t].pc = "done", ![t].ret = <<0>>]
                ELSE threads' = [threads EXCEPT ![t].pc = "get"]
    /\ UNCHANGED <<scoring_vars, module_vars, session_vars, keyword_vars, key_vars>>

\* get_model() and _get_language_tool() test the global against None
LoaderGet(t) ==
    /\ threads[t].pc = "get"
    /\ threads' = [threads EXCEPT
                     ![t].consulted = TRUE,
                     ![t].pc = IF GlobalOf(threads[t].fn) # 0 THEN "return"
                               ELSE IF threads[t].fn = "semantic_similarity"
                               THEN "load" ELSE "construct"]
    /\ UNCHANGED <<scoring_vars, module_vars, session_vars, keyword_vars, key_vars>>

\* load_models() tests the global against None once more
LoaderLoad(t) ==
    /\ threads[t].pc = "load"
    /\ threads' = [threads EXCEPT
                     ![t].pc = IF _sentence_model # 0 THEN "return" ELSE "construct"]
    /\ UNCHANGED <<scoring_vars, module_vars, session_vars, keyword_vars, key_vars>>

\* SentenceTransformer(...) or LanguageTool(...) is constructed, or raises:
\* load_models() then returns and get_model() reads the global, while
\* _get_language_tool() returns None
LoaderConstruct(t) ==
    /\ threads[t].pc = "construct"
    /\ LET th == threads[t]
           kind == KindOf(th.fn)
       IN  IF th.available
           THEN /\ constructed' = [constructed EXCEPT ![kind] = @ + 1]
                /\ threads' = [threads EXCEPT ![t].pc = "assign",
                                              ![t].made = constructed[kind] + 1]
           ELSE /\ UNCHANGED constructed
                /\ threads' = [threads EXCEPT
                                 ![t].pc = IF th.fn = "semantic_similarity"
                                           THEN "return" ELSE "use"]
    /\ UNCHANGED <<scoring_vars, _sentence_model, _language_tool, assigned, session_vars, keyword_vars, key_vars>>

\* the new object is assigned to the global
LoaderAssign(t) ==
    /\ threads[t].pc = "assign"
    /\ LET th == threads[t]
       IN  /\ _sentence_model' =
                 IF th.fn = "semantic_similarity" THEN th.made ELSE _sentence_model
           /\ _language_tool' =
                 IF th.fn = "semantic_similarity" THEN _language_tool ELSE th.made
           /\ assigned' = [assigned EXCEPT ![KindOf(th.fn)] = @ + 1]
    /\ threads' = [threads EXCEPT ![t].pc = "return"]
    /\ UNCHANGED <<scoring_vars, constructed, session_vars, keyword_vars, key_vars>>

\* return _sentence_model, return _language_tool
LoaderReturn(t) ==
    /\ threads[t].pc = "return"
    /\ threads' = [threads EXCEPT ![t].pc = "use",
                                  ![t].local = GlobalOf(threads[t].fn)]
    /\ UNCHANGED <<scoring_vars, module_vars, session_vars, keyword_vars, key_vars>>

\* the rest of the function with the model or tool it got
LoaderUse(t) ==
    /\ threads[t].pc = "use"
    /\ LET th == threads[t]
           here == [available |-> th.local # 0, raises |-> FALSE,
                    cosine |-> 4000, errors |-> 1]
       IN  threads' = [threads EXCEPT
                         ![t].pc = "done",
                         ![t].ret = IF th.fn = "semantic_similarity"
                                    THEN ModelSimilarity(th.text1, th.text2, here)
                                    ELSE <<estimate_grammar_errors(th.text1, here)>>]
    /\ UNCHANGED <<scoring_vars, module_vars, session_vars, keyword_vars, key_vars>>

LoaderNext ==
    \E t \in Threads :
        \/ LoaderCall(t) \/ LoaderEntry(t) \/ LoaderGet(t) \/ LoaderLoad(t)
        \/ LoaderConstruct(t) \/ LoaderAssign(t) \/ LoaderReturn(t) \/ LoaderUse(t)

LoaderSpec == Init /\ [][LoaderNext]_vars

(***************************************************************************)
(* The key manager as a state machine: the calls on one GeminiKeyManager,  *)
(* each under its lock, and the passing of time                            *)
(***************************************************************************)
other_vars == <<scoring_vars, module_vars, loader_vars, session_vars, keyword_vars>>

\* whether every key is usable at the hour t
AllUsable(statuses, t) == \A i \in 1..Len(statuses) : is_usable(statuses[i], t)

\* get_next_healthy_key(): a key is returned, or RuntimeError raised when the
\* loop found none
GetNextHealthyKey ==
    /\ key_calls < MaxKeyCalls
    /\ LET found == ScanKeys(key_statuses, current_index, 0, now)
       IN  /\ current_index' = found.current_index
           /\ IF found.key_id # 0
              THEN /\ rotation_count' = IF found.current_index = 0
                                        THEN rotation_count + 1
                                        ELSE rotation_count
                   /\ key_out' = [op |-> "returned", key_id |-> found.key_id,
                                  examined |-> found.examined]
                   /\ key_calls' = key_calls + 1
              ELSE /\ key_out' = [op |-> "raised", key_id |-> 0,
                                  examined |-> found.examined]
                   /\ UNCHANGED <<rotation_count, key_calls>>
    /\ UNCHANGED <<key_statuses, now, always_usable, stat_vars>>
    /\ UNCHANGED other_vars

\* whether mark_call_result finds a status with this key_id
KnownKey(statuses, key_id) == \E i \in 1..Len(statuses) : statuses[i].key_id = key_id

\* mark_call_result(key_id, success, error): total_calls is counted first;
\* for an unknown key_id the call returns there
MarkCallResult ==
    /\ total_calls < MaxMarkCalls
    /\ \E key_id \in 1..(NumKeys + 1), r \in CallResults :
          /\ key_id <= NumKeys /\ ~r[1]
                => key_statuses[key_id].consecutive_failures < MaxFailures
          /\ key_statuses' =
                [i \in 1..NumKeys |->
                    IF key_statuses[i].key_id # key_id THEN key_statuses[i]
                    ELSE IF r[1] THEN mark_success(key_statuses[i])
                    ELSE mark_failure(key_statuses[i], QuotaErrors[r[2]], now)]
          /\ total_calls' = total_calls + 1
          /\ successful_calls' = IF KnownKey(key_statuses, key_id) /\ r[1]
                                 THEN successful_calls + 1 ELSE successful_calls
          /\ failed_calls' = IF KnownKey(key_statuses, key_id) /\ ~r[1]
                             THEN failed_calls + 1 ELSE failed_calls
    /\ key_out' = [op |-> "none", key_id |-> 0, examined |-> 0]
    /\ always_usable' = (always_usable /\ AllUsable(key_statuses', now))
    /\ UNCHANGED <<current_index, rotation_count, now, key_calls>>
    /\ UNCHANGED other_vars

\* reset_key_health(key_id)
ResetKeyHealth ==
    /\ \E key_id \in 1..(NumKeys + 1) :
          key_statuses' =
             [i \in 1..NumKeys |->
                 IF key_statuses[i].key_id = key_id THEN reset_status(key_statuses[i])
                 ELSE key_statuses[i]]
    /\ key_out' = [op |-> "none", key_id |-> 0, examined |-> 0]
    /\ UNCHANGED <<current_index, rotation_count, now, key_calls, always_usable, stat_vars>>
    /\ UNCHANGED other_vars

\* an hour passes between two calls
Tick ==
    /\ now < MaxTime
    /\ now' = now + 1
    /\ key_out' = [op |-> "none", key_id |-> 0, examined |-> 0]
    /\ UNCHANGED <<key_statuses, current_index, rotation_count, key_calls, always_usable, stat_vars>>
    /\ UNCHANGED other_vars

KeyNext == GetNextHealthyKey \/ MarkCallResult \/ ResetKeyHealth \/ Tick

KeySpec == Init /\ [][KeyNext]_vars

(***************************************************************************)
(* Properties of score_answer                                              *)
(***************************************************************************)
\* C1: every returned category score (content, delivery, communication,
\* voice, confidence, structure) and final lie in [0,100], and relevance
\* lies in [0,1], whatever the transcript, duration, reference answer,
\* recording and video signals.
C1_ScoresInRange ==
    /\ \A x \in {result.content, result.delivery, result.communication,
                 result.voice, result.confidence, result.structure, result.final} :
           0 <= x /\ x <= 100 * 10
    /\ 0 <= result.relevance /\ result.relevance <= 1000
\* the penalties exceed the weighted sum, and final is held at 0
C1_Witness ==
    /\ pc = "returned" /\ quality # <<>>
    /\ WeightedSum(result) < quality[1].total_penalty * 1000
    /\ result.final = 0

\* C2 as stated: when the quality gates ran, final is exactly
\* clamp(min(rawFinal - qualityPenaltyTotal, scoreCap or 100), 0, 100),
\* rawFinal being the weighted sum of the six category scores.
C2_Original ==
    (pc = "returned" /\ quality # <<>>) =>
        LET q == quality[1]
            capped == Min(WeightedSum(result) - q.total_penalty * 1000,
                          IF q.score_cap # None THEN q.score_cap * 1000 ELSE 100 * 1000)
        IN  result.final * 100 = Max(0, Min(100 * 1000, capped))
\* C2, amended: when the quality gates ran, final is
\* clamp(min(rawFinal - qualityPenaltyTotal, scoreCap or 100), 0, 100)
\* rounded to one decimal place: it is a multiple of 0.1 at most 0.05 away.
C2_FinalFormula ==
    (pc = "returned" /\ quality # <<>>) =>
        LET q == quality[1]
            capped == Min(WeightedSum(result) - q.total_penalty * 1000,
                          IF q.score_cap # None THEN q.score_cap * 1000 ELSE 100 * 1000)
            exact == Max(0, Min(100 * 1000, capped))
        IN  /\ result.final * 100 - exact <= 50
            /\ exact - result.final * 100 <= 50
\* a penalty applies and the cap, lower than what the penalty leaves, decides
C2_Witness ==
    /\ pc = "returned" /\ quality # <<>>
    /\ quality[1].score_cap # None
    /\ quality[1].total_penalty > 0
    /\ WeightedSum(result) - quality[1].total_penalty * 1000 > quality[1].score_cap * 1000
    /\ result.final = quality[1].score_cap * 10

\* C3: for an empty transcript score_answer returns final = 0 and all six
\* category scores = 0.
C3_EmptyAllZero ==
    (pc = "returned" /\ request.transcript = "") =>
        /\ result.final = 0
        /\ result.content = 0 /\ result.delivery = 0 /\ result.communication = 0
        /\ result.voice = 0 /\ result.confidence = 0 /\ result.structure = 0

\* C4 as stated: for a transcript of fewer than 10 words the score cap of
\* the quality gates is exactly 40, whatever the other checks yield.
C4_Original ==
    (pc = "returned" /\ quality # <<>> /\ Len(Split(request.transcript)) < 10) =>
        quality[1].score_cap = 40
\* C4, amended: for a transcript of fewer than 10 words the quality gates
\* return a cap of at most 40: 15 when the nonsense gate triggered,
\* otherwise 35 when the off-topic gate triggered, otherwise exactly 40.
C4_VeryShortCap ==
    (pc = "returned" /\ quality # <<>> /\ Len(Split(request.transcript)) < 10) =>
        LET q == quality[1]
        IN  q.score_cap = IF "nonsense" \in DOMAIN q.penalties THEN 15
                          ELSE IF "off_topic" \in DOMAIN q.penalties THEN 35
                          ELSE 40
\* a relevant eight-word answer, capped at 40 although its content scores high
C4_Witness ==
    /\ pc = "returned" /\ quality # <<>>
    /\ Len(Split(request.transcript)) < 10
    /\ result.content >= 80 * 10
    /\ quality[1].score_cap = 40

\* C5: the score cap of the quality gates is the least cap of the gates
\* that triggered (40 or 60 short answer, 35 off-topic, 15 nonsense,
\* 55 low structure), and None exactly when none of them triggered.
C5_TightestCap ==
    (pc = "returned" /\ quality # <<>>) =>
        LET q == quality[1]
            word_count == Len(Split(request.transcript))
            caps == (IF word_count < 10 THEN {40}
                     ELSE IF word_count < 15 THEN {60} ELSE {})
                    \cup (IF result.relevance < 250 /\ request.ideal_answer # ""
                          THEN {35} ELSE {})
                    \cup (IF "nonsense" \in DOMAIN q.penalties THEN {15} ELSE {})
                    \cup (IF result.structure < 30 * 10 THEN {55} ELSE {})
        IN  IF caps = {} THEN q.score_cap = None
            ELSE q.score_cap = SetMin(caps)
\* the short-answer cap of 60 and the structure cap of 55 meet: the cap is 55
C5_Witness ==
    /\ pc = "returned" /\ quality # <<>>
    /\ Len(Split(request.transcript)) \in 10..14
    /\ result.structure < 30 * 10
    /\ quality[1].score_cap = 55

\* C6: the total penalty of the quality gates is the sum of the penalties
\* of exactly the gates that triggered (50 short answer, 30 few unique
\* words, 25 filler ratio, 40 off-topic, 20 repetition, 50 nonsense,
\* 30 incoherent); each of them adds one issue, and the structure gate adds
\* neither a penalty nor an issue.
C6_PenaltySum ==
    (pc = "returned" /\ quality # <<>>) =>
        LET q == quality[1]
            words == Split(request.transcript)
            word_count == Len(words)
            unique == {Lower(words[i]) : i \in {j \in 1..word_count : Len(words[j]) > 2}}
            long == [i \in 1..Len(LongerThan(words, 3)) |-> Lower(LongerThan(words, 3)[i])]
            due == [short_answer |->
                        IF word_count < 15 THEN 50 ELSE 0,
                    low_vocabulary |->
                        IF Cardinality(unique) < 10 THEN 30 ELSE 0,
                    excessive_fillers |->
                        IF result.filler_count * 100 > 15 * word_count THEN 25 ELSE 0,
                    off_topic |->
                        IF result.relevance < 250 /\ request.ideal_answer # ""
                        THEN 40 ELSE 0,
                    repetitive |->
                        IF word_count > 10 /\ long # <<>>
                           /\ MaxCount(long) * 100 > 30 * Cardinality(SeqToSet(long))
                        THEN 20 ELSE 0,
                    nonsense |->
                        IF detect_nonsense(request.transcript).is_nonsense THEN 50 ELSE 0,
                    incoherent |->
                        IF calculate_answer_coherence(request.transcript) < 30
                        THEN 30 ELSE 0]
            triggered == {k \in DOMAIN due : due[k] > 0}
        IN  /\ DOMAIN q.penalties = triggered
            /\ \A k \in triggered : q.penalties[k] = due[k]
            /\ q.total_penalty = due.short_answer + due.low_vocabulary
                                 + due.excessive_fillers + due.off_topic
                                 + due.repetitive + due.nonsense + due.incoherent
            /\ Len(q.issues) = Cardinality(triggered)
            /\ SeqToSet(q.issues) = triggered
\* several gates triggered, the structure gate among them
C6_Witness ==
    /\ pc = "returned" /\ quality # <<>>
    /\ result.structure < 30 * 10
    /\ quality[1].score_cap = 55
    /\ Len(quality[1].issues) >= 2
    /\ quality[1].total_penalty >= 80

\* C7: for the transcript "asdf asdf asdf asdf asdf" nonsense detection
\* flags the answer and the quality gates return a score cap of 15.
C7_AsdfIsNonsense ==
    (pc = "returned" /\ request.transcript = "asdf asdf asdf asdf asdf") =>
        /\ detect_nonsense(request.transcript).is_nonsense
        /\ quality # <<>>
        /\ "nonsense" \in DOMAIN quality[1].penalties
        /\ quality[1].score_cap = 15
C7_Witness ==
    /\ pc = "returned" /\ request.transcript = "asdf asdf asdf asdf asdf"
    /\ quality # <<>>
    /\ quality[1].score_cap = 15

\* C8: with the configured weights, when the six category scores all equal
\* one value v and no quality penalty or cap applies, final = v.
C8_EqualScores ==
    ( /\ pc = "returned" /\ quality # <<>>
      /\ quality[1].total_penalty = 0 /\ quality[1].score_cap = None
      /\ \A x \in {result.delivery, result.communication, result.voice,
                   result.confidence, result.structure} : x = result.content )
    => result.final = result.content
\* the good answer with every category at 82
C8_Witness ==
    /\ pc = "returned" /\ quality # <<>>
    /\ quality[1].total_penalty = 0 /\ quality[1].score_cap = None
    /\ \A x \in {result.content, result.delivery, result.communication,
                 result.voice, result.confidence, result.structure} : x = 82 * 10
    /\ result.final = 82 * 10

\* C9: a pace inside [130,160] words per minute with no filler word gives a
\* delivery score of exactly 100.
C9_OptimalDelivery ==
    ( /\ pc = "returned" /\ quality # <<>>
      /\ 130 * 10 <= result.wpm /\ result.wpm <= 160 * 10
      /\ result.filler_count = 0 )
    => result.delivery = 100 * 10
\* the upper end of the range
C9_Witness ==
    /\ pc = "returned" /\ quality # <<>>
    /\ result.wpm = 160 * 10 /\ result.filler_count = 0
    /\ result.delivery = 100 * 10

\* C10: with the same filler count, the delivery score at 250 words per
\* minute is strictly less than the delivery score at 150.
C10_FastIsWorse ==
    ( /\ pc = "returned" /\ quality # <<>> /\ prev # <<>> )
    => ( prev[1].filler_count = result.filler_count
         => /\ (prev[1].wpm = 150 * 10 /\ result.wpm = 250 * 10)
                => result.delivery < prev[1].delivery
            /\ (prev[1].wpm = 250 * 10 /\ result.wpm = 150 * 10)
                => prev[1].delivery < result.delivery )
\* an answer with fillers scored at 150, then at 250 words per minute
C10_Witness ==
    /\ pc = "returned" /\ quality # <<>> /\ prev # <<>>
    /\ prev[1].wpm = 150 * 10 /\ result.wpm = 250 * 10
    /\ result.filler_count > 0
    /\ prev[1].filler_count = result.filler_count
    /\ result.delivery < prev[1].delivery

\* C11: when the same non-empty text is both transcript and ideal answer,
\* the semantic similarity is at least 0.95 and the content score at least
\* 85, for every such text, those without an extractable keyword and those
\* shorter than 10 characters included.
C11_IdenticalText ==
    (pc = "returned" /\ request.transcript # ""
     /\ request.transcript = request.ideal_answer) =>
        LET sim == semantic_similarity(request.transcript, request.ideal_answer,
                                       env.encoder)
        IN  /\ sim[1] * 100 >= 95 * sim[2]
            /\ result.content >= 85 * 10

\* C12: semantic_similarity returns exactly 0.0 whenever either text is
\* empty, before it asks for the model: the call neither reads nor loads
\* the model; and the Jaccard fallback by itself gives 0 for an empty text.
C12_EmptyTextIsZero ==
    /\ \A t \in Threads :
          (/\ threads[t].fn = "semantic_similarity"
           /\ (threads[t].text1 = "" \/ threads[t].text2 = ""))
          => /\ threads[t].pc \in {"entry", "done"}
             /\ ~threads[t].consulted
             /\ threads[t].made = 0
             /\ threads[t].pc = "done" => threads[t].ret = <<0, 1>>
    /\ \A x \in {"", LoaderText} :
          /\ _fallback_similarity("", x)[1] = 0
          /\ _fallback_similarity(x, "")[1] = 0
\* a call with an empty second text has returned 0.0 while another thread
\* has loaded the model
C12_Witness ==
    \E t, u \in Threads :
        /\ threads[t].fn = "semantic_similarity" /\ threads[t].pc = "done"
        /\ threads[t].text1 # "" /\ threads[t].text2 = ""
        /\ threads[t].ret = <<0, 1>>
        /\ threads[u].fn = "semantic_similarity" /\ threads[u].consulted
        /\ _sentence_model # 0

\* C13: a transcript with a keyword of each of the four STAR families
\* (Situation, Task, Action, Result) has a STAR score of 100, and one with
\* a keyword of none of them has a STAR score of 25.
C13_StarScore ==
    (pc = "returned" /\ request.transcript # "") =>
        LET text == Lower(request.transcript)
            families == {k \in 1..4 :
                           ContainsAny(text, <<STAR_SITUATION_KEYWORDS, STAR_TASK_KEYWORDS,
                                               STAR_ACTION_KEYWORDS, STAR_RESULT_KEYWORDS>>[k])}
            star_score == analyze_star_structure(request.transcript).star_score
        IN  /\ families = 1..4 => star_score = 100
            /\ families = {} => star_score = 25

\* C14: under any interleaving of concurrent first calls the sentence model
\* and the grammar checker are each constructed at most once, and neither
\* global is assigned again once it holds an object.
C14_InitializedOnce ==
    /\ constructed.model <= 1 /\ assigned.model <= 1
    /\ constructed.tool <= 1 /\ assigned.tool <= 1

\* C15: score_answer run again on an identical input with the same
\* deterministic collaborators returns an identical result, whatever other
\* calls ran before or in between.
C15_Deterministic ==
    (pc = "returned") =>
        \A h \in history :
            (h.request = request /\ h.env = env)
            => (h.result = result /\ h.quality = quality)
\* a call that found the model not yet loaded is repeated after another
\* call, now with the model loaded, and returns the same
C15_Witness ==
    /\ pc = "returned"
    /\ _sentence_model # 0 /\ _language_tool # 0
    /\ \E h \in history : /\ h.request = request /\ h.env = env
                          /\ h.result = result /\ h.quality = quality
                          /\ h.result.relevance = 700
    /\ \E h \in history : h.request # request
    /\ Cardinality(history) >= 3

C17_KeywordFinalRenormalized ==
    (pc = "returned_keywords" /\ Len(Strip(request.transcript)) >= 5) =>
        /\ LET total == 30 + 15 + 15
               sum == keyword_result.content * 30 + keyword_result.delivery * 15
                      + keyword_result.communication * 15
           IN  /\ 2 * (keyword_result.final * total - sum) <= total
               /\ 2 * (sum - keyword_result.final * total) <= total
        /\ DOMAIN keyword_result
             \cap {"voice", "confidence", "structure", "quality_issues"} = {}

\* C18: a question with neither an ideal answer nor keywords gives an answer
\* that is scored the content score 50, on the path the endpoint selects
C18_NeutralContent ==
    (/\ pc \in {"returned", "returned_keywords"}
     /\ request.ideal_answer = ""
     /\ keywords = <<>>
     /\ Len(Strip(request.transcript)) >= 5) =>
        IF pc = "returned" THEN result.content = 500
        ELSE keyword_result.content = 500

\* C19: whatever calls of get_next_healthy_key, mark_call_result and
\* reset_key_health came before, a key that get_next_healthy_key returns is
\* marked healthy and is not in cooldown when it is returned
C19_ReturnedKeyUsable ==
    key_out.op = "returned" =>
        /\ key_statuses[key_out.key_id].is_healthy
        /\ ~(/\ key_statuses[key_out.key_id].cooldown_until # None
             /\ now < key_statuses[key_out.key_id].cooldown_until)
\* a key that failed before but is still healthy is returned while another
\* key is unhealthy
C19_Witness ==
    /\ key_out.op = "returned"
    /\ \E i \in 1..NumKeys : ~key_statuses[i].is_healthy
    /\ key_statuses[key_out.key_id].consecutive_failures > 0

\* C20: while all n keys stay healthy, the calls of get_next_healthy_key
\* return the keys 1, 2, ..., n, 1, ... in turn, and rotation_count counts
\* the wraps of the index from n back to 1
C20_RoundRobin ==
    (always_usable /\ key_out.op = "returned") =>
        /\ key_out.key_id = ((key_calls - 1) % NumKeys) + 1
        /\ rotation_count = key_calls \div NumKeys
\* the keys have been handed out twice around and none was ever unusable
C20_Witness ==
    /\ always_usable
    /\ key_out.op = "returned"
    /\ key_calls = 2 * NumKeys + 1
    /\ rotation_count = 2

\* C21: when no key is usable, get_next_healthy_key raises after it has
\* examined every key exactly once, and leaves current_index, rotation_count
\* and the status of every key as they were; it raises in no other case
C21_ExhaustedRaises ==
    [][key_out'.op \in {"returned", "raised"} =>
         /\ (key_out'.op = "raised") <=>
               (\A i \in 1..NumKeys :
                   \/ ~key_statuses[i].is_healthy
                   \/ /\ key_statuses[i].cooldown_until # None
                      /\ now < key_statuses[i].cooldown_until)
         /\ key_out'.op = "raised" =>
               /\ key_out'.examined = NumKeys
               /\ current_index' = current_index
               /\ rotation_count' = rotation_count
               /\ key_statuses' = key_statuses]_vars
\* get_next_healthy_key raised with the index in the middle of the keys
C21_Witness ==
    /\ key_out.op = "raised"
    /\ current_index = 1
    /\ rotation_count = 0

\* C22: without a quota error a key is unhealthy exactly when 3 failures in
\* a row are recorded for it; a success puts the count back to 0 and leaves
\* the key healthy, so shorter runs of failures never make it unhealthy
C22_ThreeStrikes ==
    [][\A i \in 1..NumKeys :
         /\ key_statuses'[i].cooldown_until = None =>
               (key_statuses'[i].is_healthy <=> key_statuses'[i].consecutive_failures < 3)
         /\ (failed_calls' = failed_calls + 1 /\ key_statuses'[i] # key_statuses[i]) =>
               key_statuses'[i].consecutive_failures
                  = key_statuses[i].consecutive_failures + 1
         /\ (successful_calls' = successful_calls + 1 /\ key_statuses'[i] # key_statuses[i]) =>
               /\ key_statuses'[i].consecutive_failures = 0
               /\ key_statuses'[i].is_healthy]_vars
\* one key is unhealthy after three failures and no quota error, another is
\* healthy after two
C22_Witness ==
    \E i, j \in 1..NumKeys :
       /\ ~key_statuses[i].is_healthy
       /\ key_statuses[i].cooldown_until = None
       /\ key_statuses[i].consecutive_failures = 3
       /\ key_statuses[j].is_healthy
       /\ key_statuses[j].consecutive_failures = 2

\* C23: a key whose cooldown after a quota error is over is usable again
\* without a reset: get_next_healthy_key returns it when its turn comes
C23_RecoversAfterCooldown ==
    \A i \in 1..NumKeys :
       (/\ key_statuses[i].cooldown_until # None
        /\ now >= key_statuses[i].cooldown_until)
       => is_usable(key_statuses[i], now)

\* C28: after any calls of mark_call_result, with known and unknown key
\* ids, total_calls is successful_calls plus failed_calls
C28_CallsAddUp ==
    total_calls = successful_calls + failed_calls

\* C24: the pace penalty is 0 only for a pace inside [130, 160] words per
\* minute, and of two scorings of one answer with the same filler count the
\* one whose pace lies further from [130, 160] on the same side has no
\* higher delivery score
C24_PaceMonotonic ==
    /\ (pc = "returned" /\ quality # <<>> /\ get_wpm_assessment(result.wpm) = 0) =>
          (OPTIMAL_WPM_MIN * 10 <= result.wpm /\ result.wpm <= OPTIMAL_WPM_MAX * 10)
    /\ (/\ pc = "returned" /\ quality # <<>> /\ prev # <<>>
        /\ prev[1].filler_count = result.filler_count) =>
          LET far == prev[1].wpm
              near == result.wpm
          IN  /\ (OPTIMAL_WPM_MAX * 10 <= near /\ near <= far) =>
                    prev[1].delivery <= result.delivery
              /\ (far <= near /\ near <= OPTIMAL_WPM_MIN * 10) =>
                    prev[1].delivery <= result.delivery
              /\ (OPTIMAL_WPM_MAX * 10 <= far /\ far <= near) =>
                    result.delivery <= prev[1].delivery
              /\ (near <= far /\ far <= OPTIMAL_WPM_MIN * 10) =>
                    result.delivery <= prev[1].delivery

\* C25: the grammar factor is 100 less 3 per reported error, the deduction
\* being at most 40, so the factor of a scored answer is never below 60
C25_GrammarFloor ==
    (/\ pc = "returned" /\ quality # <<>>
     /\ Len(Strip(request.transcript)) >= 10) =>
        /\ GrammarScore(result.grammar_errors)
             = (100 - Min(MAX_GRAMMAR_PENALTY,
                          result.grammar_errors * GRAMMAR_PENALTY_PER_ERROR)) * 10
        /\ GrammarScore(result.grammar_errors) >= 600

\* C26: the repetition penalty is given only when one word longer than
\* three characters makes up more than 30% of the words longer than three
\* characters, and never when each of these words occurs once
C26_RepetitionShare ==
    (pc = "returned" /\ quality # <<>>
     /\ "repetitive" \in DOMAIN quality[1].penalties) =>
        LET long == LongWords(Split(request.transcript))
        IN  /\ quality[1].penalties["repetitive"] = 20
            /\ MaxCount(long) * 100 > 30 * Len(long)
            /\ MaxCount(long) > 1

\* C27: no scoring call runs with weights that do not sum to 1.0: what the
\* call in either mode gives to scores that all equal 1 is 1 (weights are in
\* hundredths)
C27_WeightsSumToOne ==
    /\ pc = "returned" =>
          WeightedSum([content |-> 1, delivery |-> 1, communication |-> 1,
                       voice |-> 1, confidence |-> 1, structure |-> 1]) = 100
    /\ pc = "returned_keywords" => KeywordWeightedSum(1, 1, 1) = 100

\* C29: for a transcript of fewer than 10 words score_answer returns a final
\* score of at most 20, and when the quality gates run both the short-answer
\* penalty of 50 and the unique-word penalty of 30 are given
C29_VeryShortAtMostTwenty ==
    (pc = "returned" /\ Len(Split(request.transcript)) < 10) =>
        /\ result.final <= 200
        /\ quality # <<>> =>
              /\ "short_answer" \in DOMAIN quality[1].penalties
              /\ "low_vocabulary" \in DOMAIN quality[1].penalties
              /\ quality[1].penalties["short_answer"] = 50
              /\ quality[1].penalties["low_vocabulary"] = 30
              /\ quality[1].total_penalty >= 80
\* an answer of nine words whose weighted sum is above 80 was scored: its
\* final score is above 0 and at most 20, below the cap of 40
C29_Witness ==
    /\ pc = "returned"
    /\ Len(Split(request.transcript)) = 9
    /\ quality # <<>>
    /\ quality[1].score_cap = 40
    /\ result.raw_final > 800
    /\ result.final <= 200
    /\ result.final > 0

\* C30: detect_nonsense flags a transcript of at least 5 characters exactly
\* when it collected at least two hits, and a transcript with exactly one
\* hit is not flagged and gets neither the nonsense penalty nor its cap
C30_TwoHits ==
    (pc = "returned" /\ Len(request.transcript) >= 5) =>
        LET found == detect_nonsense(request.transcript)
        IN  /\ found.is_nonsense <=> found.patterns_found >= 2
            /\ (found.patterns_found = 1 /\ quality # <<>>) =>
                  /\ "nonsense" \notin DOMAIN quality[1].penalties
                  /\ quality[1].score_cap # SCORE_CAPS.nonsense
\* C30 as amended: the same for a transcript of at least 5 characters after
\* the surrounding whitespace is stripped; the quality gates give the
\* nonsense penalty to exactly the transcripts with at least two hits
C30_TwoHitsStripped ==
    (pc = "returned" /\ Len(Strip(request.transcript)) >= 5) =>
        LET found == detect_nonsense(request.transcript)
        IN  /\ found.is_nonsense <=> found.patterns_found >= 2
            /\ found.confidence = Min(10, 3 * found.patterns_found)
            /\ quality # <<>> =>
                  /\ ("nonsense" \in DOMAIN quality[1].penalties)
                        <=> found.patterns_found >= 2
                  /\ found.patterns_found < 2 =>
                        quality[1].score_cap # SCORE_CAPS.nonsense
\* an answer with exactly one hit was scored without the nonsense penalty
C30_Witness ==
    /\ pc = "returned"
    /\ Len(Strip(request.transcript)) >= 5
    /\ quality # <<>>
    /\ detect_nonsense(request.transcript).patterns_found = 1
    /\ "nonsense" \notin DOMAIN quality[1].penalties

====
